---------------------------- MODULE Spec2Model ----------------------------
(***************************************************************************)
(* A model of the conversation-state tracker (utils/conversation_manager)  *)
(* and of the recommendation engine (utils/ml_recommendations) of the      *)
(* QuickDeliver customer-service chatbot.                                   *)
(*                                                                         *)
(* Python strings are sequences of one-character strings, so that          *)
(* str.lower() and the substring test `word in message` are computed.      *)
(* Python's None is the string "None" where the other values are strings   *)
(* (topics), and the empty tuple <<>> around an optional text: Some(m) is  *)
(* <<m>>, and the record [is_none |-> TRUE] where they are objects.        *)
(*                                                                         *)
(* Floats are fixed-point numbers of thousandths with divisions rounding   *)
(* down, and a hybrid final_score is kept in tenths of thousandths.  The    *)
(* order in which a Python set of strings is iterated depends on the       *)
(* process's hash seed: it is the variable hash_order, chosen when the     *)
(* process starts.  The order history and the catalog (utils.data) are     *)
(* inputs, drawn when the process starts.                                  *)
(*                                                                         *)
(* datetime.now() is the variable today, in whole days; an order's date    *)
(* is kept as its age in days when the process starts.  RecSpec follows    *)
(* the engine within one day, TimeSpec over midnights, and SwapSpec        *)
(* follows a thread inside update_recommendation_model step by step        *)
(* against a thread inside get_ml_recommendations.                         *)
(*                                                                         *)
(* ConvSpec follows the tracker alone, HeldSpec the tracker and a caller   *)
(* keeping a dict it got from get_conversation_state(), whose              *)
(* conversation_flow is the tracker's list until the tracker is reset, and *)
(* PageSpec one session of the chat page (internal_pages/chatbot,          *)
(* internal_pages/chatbot_voice), a turn in three steps.  TriedSpec is     *)
(* RecSpec's engine over order histories with orders of total 0.           *)
(***************************************************************************)
EXTENDS Integers, Sequences, FiniteSets, TLC

VARIABLES
    \* ConversationManager.conversation_state, field by field
    current_topic,
    context,
    message_count,
    last_user_message,
    last_assistant_message,
    conversation_flow,
    \* the tracker method called last, and what it returned
    called,
    returned,
    \* the dict that the last get_conversation_state() call returned, as its
    \* holder sees it now
    returned_state,
    \* st.session_state.chat_history and the place the chat page's script has
    \* reached in the turn it is handling
    chat_history,
    page,
    \* utils.data: the order history per user and the restaurant catalog
    MOCK_USERS,
    RESTAURANT_RECOMMENDATIONS,
    \* the iteration order this process's string hashing gives to sets
    hash_order,
    \* the attributes of the global RecommendationEngine instance
    user_item_matrix,
    restaurant_features,
    user_profiles,
    similarity_matrix,
    \* the request being served ("idle" between requests) and its outcome
    request,
    response,
    \* datetime.now(), in whole days since the process started
    today,
    \* the RecommendationEngine objects there are, the one the module global
    \* recommendation_engine is bound to, the thread inside
    \* update_recommendation_model and the thread inside
    \* get_ml_recommendations
    instances,
    recommendation_engine,
    builder,
    reader

conv_vars == << current_topic, context, message_count, last_user_message,
                last_assistant_message, conversation_flow, called, returned,
                returned_state, chat_history, page >>

page_vars == << chat_history, page >>

data_vars == << MOCK_USERS, RESTAURANT_RECOMMENDATIONS, hash_order >>

engine_vars == << user_item_matrix, restaurant_features, user_profiles,
                 similarity_matrix >>

swap_vars == << instances, recommendation_engine, builder, reader >>

rec_vars == << data_vars, engine_vars, request, response, today, swap_vars >>

vars == << conv_vars, rec_vars >>

---------------------------------------------------------------------------
(* Bounds *)

\* add_* calls are taken while the flow is shorter than this
MaxFlow == 3

\* the order history holds at most this many orders, over all users
MaxOrders == 3

\* recommendation lists are asked with n_recommendations in 1..MaxN
MaxN == 2

\* the process is followed over this many midnights
MaxDays == 1

\* update_recommendation_model is called at most this many times
MaxBuilds == 2

---------------------------------------------------------------------------
(* Strings *)

None == "None"
NoText == << >>
Some(m) == << m >>

UpperChars == << "A","B","C","D","E","F","G","H","I","J","K","L","M",
                 "N","O","P","Q","R","S","T","U","V","W","X","Y","Z" >>
LowerChars == << "a","b","c","d","e","f","g","h","i","j","k","l","m",
                 "n","o","p","q","r","s","t","u","v","w","x","y","z" >>

\* str.lower() on one character
lower_char(c) ==
    IF \E i \in 1..Len(UpperChars) : UpperChars[i] = c
    THEN LowerChars[CHOOSE i \in 1..Len(UpperChars) : UpperChars[i] = c]
    ELSE c

\* message.lower()
lower(message) == [i \in 1..Len(message) |-> lower_char(message[i])]

\* Python's `word in text` on strings: word occurs as a contiguous substring
contains(text, word) ==
    \E i \in 0..(Len(text) - Len(word)) :
        \A j \in 1..Len(word) : text[i + j] = word[j]

\* any(word in text for word in words)
any_word_in(text, words) == \E k \in 1..Len(words) : contains(text, words[k])

---------------------------------------------------------------------------
(* Keyword lists of _detect_topic *)

\* ['refund', 'return', 'money back', 'cancel order']
Kw_refund_request ==
  << <<"r","e","f","u","n","d">>,
     <<"r","e","t","u","r","n">>,
     <<"m","o","n","e","y"," ","b","a","c","k">>,
     <<"c","a","n","c","e","l"," ","o","r","d","e","r">> >>
\* ['track', 'order status', 'delivery', 'where is my order']
Kw_order_tracking ==
  << <<"t","r","a","c","k">>,
     <<"o","r","d","e","r"," ","s","t","a","t","u","s">>,
     <<"d","e","l","i","v","e","r","y">>,
     <<"w","h","e","r","e"," ","i","s"," ","m","y"," ","o","r","d","e","r">> >>
\* ['bill', 'payment', 'charge', 'subscription']
Kw_billing_inquiry ==
  << <<"b","i","l","l">>,
     <<"p","a","y","m","e","n","t">>,
     <<"c","h","a","r","g","e">>,
     <<"s","u","b","s","c","r","i","p","t","i","o","n">> >>
\* ['recommend', 'suggest', 'restaurant', 'food']
Kw_recommendations ==
  << <<"r","e","c","o","m","m","e","n","d">>,
     <<"s","u","g","g","e","s","t">>,
     <<"r","e","s","t","a","u","r","a","n","t">>,
     <<"f","o","o","d">> >>
\* ['account', 'profile', 'settings', 'password']
Kw_account_management ==
  << <<"a","c","c","o","u","n","t">>,
     <<"p","r","o","f","i","l","e">>,
     <<"s","e","t","t","i","n","g","s">>,
     <<"p","a","s","s","w","o","r","d">> >>

---------------------------------------------------------------------------
(* Chat texts fed to the tracker *)

\* "I want a refund for order 123"
Msg_refund == <<"I"," ","w","a","n","t"," ","a"," ","r","e","f","u","n","d"," ","f","o","r"," ","o","r","d","e","r"," ","1","2","3">>
\* "thanks"
Msg_thanks == <<"t","h","a","n","k","s">>
\* "Track my REFUND"
Msg_track_refund == <<"T","r","a","c","k"," ","m","y"," ","R","E","F","U","N","D">>
\* "Where is my order?"
Msg_where == <<"W","h","e","r","e"," ","i","s"," ","m","y"," ","o","r","d","e","r","?">>
\* "billing after delivery"
Msg_bill_delivery == <<"b","i","l","l","i","n","g"," ","a","f","t","e","r"," ","d","e","l","i","v","e","r","y">>
\* "Payment for food"
Msg_payment_food == <<"P","a","y","m","e","n","t"," ","f","o","r"," ","f","o","o","d">>
\* "Food for my account"
Msg_food_account == <<"F","o","o","d"," ","f","o","r"," ","m","y"," ","a","c","c","o","u","n","t">>
\* "reset PASSWORD"
Msg_password == <<"r","e","s","e","t"," ","P","A","S","S","W","O","R","D">>
\* ""
Msg_empty == << >>
\* "money  back" (two spaces: not the keyword 'money back')
Msg_money__back == <<"m","o","n","e","y"," "," ","b","a","c","k">>
\* "You are welcome"
Msg_welcome == <<"Y","o","u"," ","a","r","e"," ","w","e","l","c","o","m","e">>
\* "Track it in your account"
Msg_track_account == <<"T","r","a","c","k"," ","i","t"," ","i","n"," ","y","o","u","r"," ","a","c","c","o","u","n","t">>

\* what the user types, says or picks as a quick action
UserTexts ==
    { Msg_refund, Msg_thanks, Msg_track_refund, Msg_where, Msg_bill_delivery,
      Msg_payment_food, Msg_food_account, Msg_password, Msg_empty,
      Msg_money__back }

\* what the LLM answers
AssistantTexts == { Msg_welcome, Msg_track_account }

---------------------------------------------------------------------------
(* ConversationManager *)

\* mutant: order_tracking is checked before refund_request
detect_topic_track_first(message) ==
    LET message_lower == lower(message) IN
    IF any_word_in(message_lower, Kw_order_tracking) THEN "order_tracking"
    ELSE IF any_word_in(message_lower, Kw_refund_request) THEN "refund_request"
    ELSE IF any_word_in(message_lower, Kw_billing_inquiry) THEN "billing_inquiry"
    ELSE IF any_word_in(message_lower, Kw_recommendations) THEN "recommendations"
    ELSE IF any_word_in(message_lower, Kw_account_management) THEN "account_management"
    ELSE None

detect_topic(message) ==
    LET message_lower == lower(message) IN
    IF any_word_in(message_lower, Kw_refund_request) THEN "refund_request"
    ELSE IF any_word_in(message_lower, Kw_order_tracking) THEN "order_tracking"
    ELSE IF any_word_in(message_lower, Kw_billing_inquiry) THEN "billing_inquiry"
    ELSE IF any_word_in(message_lower, Kw_recommendations) THEN "recommendations"
    ELSE IF any_word_in(message_lower, Kw_account_management) THEN "account_management"
    ELSE None

\* one entry of conversation_flow; the timestamp (datetime.now()) is read by
\* no method of the tracker and is left out
FlowEntry(role, message, topic) ==
    [role |-> role, message |-> message, topic |-> topic]

RECURSIVE count_topic(_, _, _)
\* the loop of get_topic_message_count over the first k flow entries
count_topic(flow, topic, k) ==
    IF k = 0 THEN 0
    ELSE count_topic(flow, topic, k - 1)
         + (IF flow[k].topic = topic THEN 1 ELSE 0)

get_current_topic == current_topic

\* mutant: the early return for "no current topic" is missing
get_topic_message_count_no_guard(topic, flow) ==
    count_topic(flow, topic, Len(flow))

get_topic_message_count_of(topic, flow) ==
    IF topic = None THEN 0
    ELSE count_topic(flow, topic, Len(flow))

get_topic_message_count ==
    get_topic_message_count_of(get_current_topic, conversation_flow)

\* no get_conversation_state() call yet
NoState == [is_none |-> TRUE]

\* dict.copy(): a new dict with the same values, so that the strings and
\* the count are the caller's own while conversation_flow is the tracker's
\* list itself (shares_flow) until the tracker takes a new one
copy_of_state ==
    [is_none |-> FALSE,
     current_topic |-> current_topic,
     context |-> context,
     message_count |-> message_count,
     last_user_message |-> last_user_message,
     last_assistant_message |-> last_assistant_message,
     conversation_flow |-> conversation_flow,
     shares_flow |-> TRUE,
     flow_when_returned |-> conversation_flow]

\* the returned dict after the tracker's flow has become `flow`, in the same
\* list (append) or in a new one (the dict literal of reset_conversation)
seen_after(flow, same_list) ==
    IF returned_state.is_none THEN returned_state
    ELSE IF ~returned_state.shares_flow THEN returned_state
    ELSE IF same_list
    THEN [returned_state EXCEPT !.conversation_flow = flow]
    ELSE [returned_state EXCEPT !.shares_flow = FALSE]

ConvInit ==
    /\ current_topic = None
    /\ context = << >>
    /\ message_count = 0
    /\ last_user_message = NoText
    /\ last_assistant_message = NoText
    /\ conversation_flow = << >>
    /\ called = "__init__"
    /\ returned = None
    /\ returned_state = NoState

\* mutant: current_topic is assigned whether or not a topic was detected
add_user_message_always_sets_topic(message) ==
    LET topic == detect_topic(message) IN
    /\ Len(conversation_flow) < MaxFlow
    /\ last_user_message' = Some(message)
    /\ message_count' = message_count + 1
    /\ current_topic' = topic
    /\ conversation_flow' =
           Append(conversation_flow, FlowEntry("user", message, topic))
    /\ called' = "add_user_message"
    /\ returned' = None
    /\ UNCHANGED << context, last_assistant_message >>
    /\ returned_state' = seen_after(conversation_flow', TRUE)
    /\ UNCHANGED rec_vars

\* mutant: message_count counts only the messages with a detected topic
add_user_message_counts_topical(message) ==
    LET topic == detect_topic(message) IN
    /\ Len(conversation_flow) < MaxFlow
    /\ last_user_message' = Some(message)
    /\ message_count' = message_count + (IF topic # None THEN 1 ELSE 0)
    /\ current_topic' = IF topic # None THEN topic ELSE current_topic
    /\ conversation_flow' =
           Append(conversation_flow, FlowEntry("user", message, topic))
    /\ called' = "add_user_message"
    /\ returned' = None
    /\ UNCHANGED << context, last_assistant_message >>
    /\ returned_state' = seen_after(conversation_flow', TRUE)
    /\ UNCHANGED rec_vars

\* mutant: the user entry is tagged with the topic that is current after it
add_user_message_tags_current(message) ==
    LET topic == detect_topic(message) IN
    /\ Len(conversation_flow) < MaxFlow
    /\ last_user_message' = Some(message)
    /\ message_count' = message_count + 1
    /\ current_topic' = IF topic # None THEN topic ELSE current_topic
    /\ conversation_flow' =
           Append(conversation_flow,
                  FlowEntry("user", message,
                            IF topic # None THEN topic ELSE current_topic))
    /\ called' = "add_user_message"
    /\ returned' = None
    /\ UNCHANGED << context, last_assistant_message >>
    /\ returned_state' = seen_after(conversation_flow', TRUE)
    /\ UNCHANGED rec_vars

add_user_message(message) ==
    LET topic == detect_topic(message) IN
    /\ Len(conversation_flow) < MaxFlow
    /\ last_user_message' = Some(message)
    /\ message_count' = message_count + 1
    /\ current_topic' = IF topic # None THEN topic ELSE current_topic
    /\ conversation_flow' =
           Append(conversation_flow, FlowEntry("user", message, topic))
    /\ called' = "add_user_message"
    /\ returned' = None
    /\ UNCHANGED << context, last_assistant_message >>
    /\ returned_state' = seen_after(conversation_flow', TRUE)
    /\ UNCHANGED rec_vars

\* mutant: the assistant text is run through topic detection like a user text
add_assistant_message_redetects(message) ==
    LET topic == detect_topic(message) IN
    /\ Len(conversation_flow) < MaxFlow
    /\ last_assistant_message' = Some(message)
    /\ current_topic' = IF topic # None THEN topic ELSE current_topic
    /\ conversation_flow' =
           Append(conversation_flow, FlowEntry("assistant", message, topic))
    /\ called' = "add_assistant_message"
    /\ returned' = None
    /\ UNCHANGED << context, message_count, last_user_message >>
    /\ returned_state' = seen_after(conversation_flow', TRUE)
    /\ UNCHANGED rec_vars

add_assistant_message(message) ==
    /\ Len(conversation_flow) < MaxFlow
    /\ last_assistant_message' = Some(message)
    /\ conversation_flow' =
           Append(conversation_flow,
                  FlowEntry("assistant", message, current_topic))
    /\ called' = "add_assistant_message"
    /\ returned' = None
    /\ UNCHANGED << context, current_topic, message_count, last_user_message >>
    /\ returned_state' = seen_after(conversation_flow', TRUE)
    /\ UNCHANGED rec_vars

\* mutant: the flow list is kept across a reset
reset_conversation_keeps_flow ==
    /\ current_topic' = None
    /\ context' = << >>
    /\ message_count' = 0
    /\ last_user_message' = NoText
    /\ last_assistant_message' = NoText
    /\ called' = "reset_conversation"
    /\ returned' = None
    /\ returned_state' = seen_after(conversation_flow, TRUE)
    /\ UNCHANGED rec_vars
    /\ UNCHANGED conversation_flow

\* mutant: the topic is kept across a reset
reset_conversation_keeps_topic ==
    /\ UNCHANGED current_topic
    /\ context' = << >>
    /\ message_count' = 0
    /\ last_user_message' = NoText
    /\ last_assistant_message' = NoText
    /\ conversation_flow' = << >>
    /\ called' = "reset_conversation"
    /\ returned' = None
    /\ returned_state' = seen_after(<< >>, FALSE)
    /\ UNCHANGED rec_vars

reset_conversation ==
    /\ current_topic' = None
    /\ context' = << >>
    /\ message_count' = 0
    /\ last_user_message' = NoText
    /\ last_assistant_message' = NoText
    /\ conversation_flow' = << >>
    /\ called' = "reset_conversation"
    /\ returned' = None
    /\ returned_state' = seen_after(<< >>, FALSE)
    /\ UNCHANGED rec_vars

call_get_topic_message_count ==
    /\ called' = "get_topic_message_count"
    /\ returned' = get_topic_message_count
    /\ UNCHANGED << current_topic, context, message_count, last_user_message,
                    last_assistant_message, conversation_flow >>
    /\ UNCHANGED returned_state
    /\ UNCHANGED rec_vars

call_get_conversation_state ==
    /\ called' = "get_conversation_state"
    /\ returned' = None
    /\ returned_state' = copy_of_state
    /\ UNCHANGED << current_topic, context, message_count, last_user_message,
                    last_assistant_message, conversation_flow >>
    /\ UNCHANGED rec_vars

---------------------------------------------------------------------------
(* The chat page: internal_pages/chatbot.py and internal_pages/chatbot_voice.py *)

\* the messages of the five quick-action buttons
QuickActions ==
    {
      \* "I want to track my recent order"
      <<"I"," ","w","a","n","t"," ","t","o"," ","t","r","a","c","k"," ","m","y"," ","r","e","c","e","n","t"," ","o","r","d","e","r">>,
      \* "I have a question about my bill"
      <<"I"," ","h","a","v","e"," ","a"," ","q","u","e","s","t","i","o","n"," ","a","b","o","u","t"," ","m","y"," ","b","i","l","l">>,
      \* "Can you recommend some restaurants?"
      <<"C","a","n"," ","y","o","u"," ","r","e","c","o","m","m","e","n","d"," ","s","o","m","e"," ","r","e","s","t","a","u","r","a","n","t","s","?">>,
      \* "Help me with my account settings"
      <<"H","e","l","p"," ","m","e"," ","w","i","t","h"," ","m","y"," ","a","c","c","o","u","n","t"," ","s","e","t","t","i","n","g","s">>,
      \* "I would like to request a refund for my recent order"
      <<"I"," ","w","o","u","l","d"," ","l","i","k","e"," ","t","o"," ","r","e","q","u","e","s","t"," ","a"," ","r","e","f","u","n","d"," ","f","o","r"," ","m","y"," ","r","e","c","e","n","t"," ","o","r","d","e","r">> }

\* what is typed into the form, a text of blanks included
FormTexts == { Msg_refund, Msg_thanks, <<" "," ">>, Msg_empty }

\* what listen_once() returns: the transcript, or None (here the empty
\* optional) when nothing was understood
Heard == { Some(Msg_where), Some(Msg_thanks), NoText }

\* what call_openrouter_api returns: the answer of the model or an error text
Responses ==
    { Msg_welcome, Msg_track_account,
      <<"N","e","t","w","o","r","k"," ","e","r","r","o","r">> }

\* str.strip() of a text of letters and blanks
RECURSIVE lstrip(_)
lstrip(text) ==
    IF text = << >> THEN << >>
    ELSE IF Head(text) = " " THEN lstrip(Tail(text))
    ELSE text

RECURSIVE rstrip(_)
rstrip(text) ==
    IF text = << >> THEN << >>
    ELSE IF text[Len(text)] = " " THEN rstrip(SubSeq(text, 1, Len(text) - 1))
    ELSE text

\* format of a chat_history entry
ChatEntry(role, content) == [role |-> role, content |-> content]

\* the script is between two runs
Ready == [at |-> "ready"]

\* the script is inside a turn started by `via` with the text `prompt`
InTurn(at, via, prompt) == [at |-> at, via |-> via, prompt |-> prompt]

PageInit ==
    /\ chat_history = << >>
    /\ page = Ready

\* add_to_chat_history("user", text); conv_manager.add_user_message(text)
record_user(via, text) ==
    /\ page = Ready
    /\ Len(conversation_flow) + 2 <= MaxFlow
    /\ chat_history' = Append(chat_history, ChatEntry("user", text))
    /\ add_user_message(text)
    /\ page' = InTurn("recorded", via, text)

\* the form: "if submit_button and user_input.strip()"
text_submit(user_input) ==
    /\ rstrip(lstrip(user_input)) # << >>
    /\ record_user("form", user_input)

\* one of the quick-action buttons
handle_quick_action(message) == record_user("quick", message)

\* the Speak button: "text = listen_once(); if text:"
voice_controls(text) ==
    /\ text # NoText
    /\ text[1] # << >>
    /\ record_user("voice", text[1])

\* the arguments of call_openrouter_api are evaluated: the chat history and
\* conv_manager.get_conversation_state()
begin_call ==
    /\ page.at = "recorded"
    /\ call_get_conversation_state
    /\ page' = [page EXCEPT !.at = "calling"]
    /\ UNCHANGED chat_history

\* call_openrouter_api returns; add_to_chat_history("assistant", response);
\* conv_manager.add_assistant_message(response); the script ends (st.rerun,
\* or the end of the run after a quick action)
end_call(reply) ==
    /\ page.at = "calling"
    /\ chat_history' = Append(chat_history, ChatEntry("assistant", reply))
    /\ add_assistant_message(reply)
    /\ page' = Ready

\* the script run ends inside the spinner: an exception leaves
\* call_openrouter_api (get_user_data runs outside its try), or the user
\* acts on the page while the call is under way
call_abandoned ==
    /\ page.at = "calling"
    /\ page' = Ready
    /\ UNCHANGED << current_topic, context, message_count, last_user_message,
                    last_assistant_message, conversation_flow, called,
                    returned, returned_state, chat_history >>
    /\ UNCHANGED rec_vars

\* mutant: Clear Chat empties the chat history and leaves the tracker alone
clear_chat_history_only ==
    /\ page = Ready
    /\ chat_history' = << >>
    /\ UNCHANGED << current_topic, context, message_count, last_user_message,
                    last_assistant_message, conversation_flow, called,
                    returned, returned_state, page >>
    /\ UNCHANGED rec_vars

\* the Clear Chat button: clear_chat_history(); conv_manager.reset_conversation()
clear_chat ==
    /\ page = Ready
    /\ chat_history' = << >>
    /\ reset_conversation
    /\ UNCHANGED page

PageNext ==
    \/ \E user_input \in FormTexts : text_submit(user_input)
    \/ \E message \in QuickActions : handle_quick_action(message)
    \/ \E text \in Heard : voice_controls(text)
    \/ begin_call
    \/ \E reply \in Responses : end_call(reply)
    \/ call_abandoned
    \/ clear_chat

\* the tracker alone: its methods called in any order
ConvNext ==
    \/ \E message \in UserTexts :
          add_user_message(message) /\ UNCHANGED page_vars
    \/ \E message \in AssistantTexts :
          add_assistant_message(message) /\ UNCHANGED page_vars
    \/ reset_conversation /\ UNCHANGED page_vars
    \/ call_get_topic_message_count /\ UNCHANGED page_vars


---------------------------------------------------------------------------
(* Numbers.  A Python float is a fixed-point number of thousandths: 1.2 is  *)
(* 1200.  Divisions round down.                                            *)

F == 1000

Min(a, b) == IF a <= b THEN a ELSE b
Max(a, b) == IF a >= b THEN a ELSE b
Abs(a) == IF a >= 0 THEN a ELSE 0 - a

Range(seq) == { seq[i] : i \in 1..Len(seq) }

RECURSIVE SumSeq(_)
SumSeq(seq) == IF seq = << >> THEN 0 ELSE Head(seq) + SumSeq(Tail(seq))

RECURSIVE isqrt_between(_, _, _)
\* the largest r in lo..hi with r * r <= x
isqrt_between(x, lo, hi) ==
    IF lo >= hi THEN lo
    ELSE LET mid == (lo + hi + 1) \div 2 IN
         IF mid * mid <= x THEN isqrt_between(x, mid, hi)
         ELSE isqrt_between(x, lo, mid - 1)

\* math.sqrt on a sum of squares of thousandths, in thousandths
sqrt_fixed(x) == isqrt_between(x, 0, Min(x, 46340))

\* Python's None, for an attribute that otherwise holds an object
NoneObj == [is_none |-> TRUE]

\* list(a_set): the elements in the order the process's hashing gives
list_of_set(S, order) == SelectSeq(order, LAMBDA x : x \in S)

RECURSIVE insert_asc(_, _)
\* item goes behind every entry of the sorted list whose score is <= its own
insert_asc(sorted, item) ==
    IF sorted = << >> THEN << item >>
    ELSE IF Head(sorted).score <= item.score
         THEN << Head(sorted) >> \o insert_asc(Tail(sorted), item)
         ELSE << item >> \o sorted

RECURSIVE sorted_asc(_)
\* sorted(items, key=score): stable, ties keep their order
sorted_asc(items) ==
    IF items = << >> THEN << >>
    ELSE insert_asc(sorted_asc(SubSeq(items, 1, Len(items) - 1)),
                    items[Len(items)])

\* mutant: reverse=True is missing
sorted_not_reversed(items) == sorted_asc(items)

RECURSIVE insert_desc(_, _)
\* item goes behind every entry of the sorted list whose score is >= its own
insert_desc(sorted, item) ==
    IF sorted = << >> THEN << item >>
    ELSE IF Head(sorted).score >= item.score
         THEN << Head(sorted) >> \o insert_desc(Tail(sorted), item)
         ELSE << item >> \o sorted

RECURSIVE sorted_desc(_)
\* sorted(items, key=score, reverse=True): stable, ties keep their order
sorted_desc(items) ==
    IF items = << >> THEN << >>
    ELSE insert_desc(sorted_desc(SubSeq(items, 1, Len(items) - 1)),
                     items[Len(items)])

\* a_list[:n]
take(seq, n) == SubSeq(seq, 1, Min(n, Len(seq)))

---------------------------------------------------------------------------
(* Delivery-time labels *)

Digits == << "0","1","2","3","4","5","6","7","8","9" >>

is_space(c) == c = " "

RECURSIVE split_from(_, _, _)
\* str.split(): the maximal runs of non-whitespace characters from position
\* i on, `word` being the run read so far
split_from(text, i, word) ==
    IF i > Len(text)
    THEN (IF word = << >> THEN << >> ELSE << word >>)
    ELSE IF is_space(text[i])
         THEN (IF word = << >> THEN << >> ELSE << word >>)
              \o split_from(text, i + 1, << >>)
         ELSE split_from(text, i + 1, Append(word, text[i]))

split(text) == split_from(text, 1, << >>)

\* str.isdigit(): non-empty and all digits
isdigit(word) ==
    /\ word # << >>
    /\ \A i \in 1..Len(word) : \E d \in 1..10 : Digits[d] = word[i]

digit_value(c) == (CHOOSE d \in 1..10 : Digits[d] = c) - 1

RECURSIVE int_of(_)
int_of(word) ==
    IF word = << >> THEN 0
    ELSE 10 * int_of(SubSeq(word, 1, Len(word) - 1))
         + digit_value(word[Len(word)])

parse_delivery_time(delivery_time_str) ==
    LET words == split(delivery_time_str)
        numbers == [ i \in 1..Len(SelectSeq(words, isdigit)) |->
                       int_of(SelectSeq(words, isdigit)[i]) ]
    IN  IF Len(numbers) >= 2 THEN ((numbers[1] + numbers[2]) * F) \div 2
        ELSE IF Len(numbers) = 1 THEN numbers[1] * F
        ELSE 30 * F

---------------------------------------------------------------------------
(* utils.data *)

UserOrder == << "alice", "bob", "carol" >>
UserNames == Range(UserOrder)

\* a username that is no key of MOCK_USERS
UnknownUser == "dave"

Label_25_35 == <<"2","5","-","3","5"," ","m","i","n">>
Label_30_40 == <<"3","0","-","4","0"," ","m","i","n">>
Label_75 == <<"7","5"," ","m","i","n">>
Label_fast == <<"f","a","s","t">>
Label_15__25 == <<"1","5"," ","-"," ","2","5"," ","m","i","n">>

Restaurant(name, cuisine, rating, delivery_time) ==
    [name |-> name, cuisine |-> cuisine, rating |-> rating,
     delivery_time |-> delivery_time]

Catalog ==
    << Restaurant("Pizza Hut", "Italian", 4500, Label_25_35),
       Restaurant("Sushi Go", "Japanese", 4800, Label_30_40),
       Restaurant("Taco Town", "Mexican", 4200, Label_75),
       Restaurant("Pasta Casa", "Italian", 4500, Label_25_35),
       Restaurant("Curry Leaf", "Indian", 4000, Label_fast),
       Restaurant("Burger Barn", "American", 3900, Label_15__25),
       Restaurant("Noodle Bar", "Japanese", 4600, Label_30_40) >>

\* order.get('date') as the whole days between it and the start of the
\* process, when it parses
Order(restaurant, total, status, days_ago) ==
    [restaurant |-> restaurant, total |-> total, total_is_number |-> TRUE,
     status |-> status, date_parses |-> TRUE, days_ago |-> days_ago]

\* the order records there are to place; each belongs to at most one user
OrderPool ==
    << Order("Pizza Hut", 600, "Delivered", 0),
       Order("Pizza Hut", 1500, "In Transit", 30),
       Order("Sushi Go", 600, "Delivered", 40),
       Order("Taco Town", 0, "Delivered", 7),
       [Order("Ghost Kitchen", 250, "Cancelled", 0)
          EXCEPT !.date_parses = FALSE],
       [Order("Sushi Go", 0, "Preparing", 31)
          EXCEPT !.total_is_number = FALSE] >>

\* who placed which order of the pool ("nobody": not placed)
Placements ==
    { pl \in [1..Len(OrderPool) -> UserNames \cup {"nobody"}] :
        Cardinality({ i \in 1..Len(OrderPool) : pl[i] # "nobody" })
            <= MaxOrders }

orders_of(pl, username) ==
    LET mine == SelectSeq([i \in 1..Len(OrderPool) |-> i],
                          LAMBDA i : pl[i] = username)
    IN  [k \in 1..Len(mine) |-> OrderPool[mine[k]]]

AllRestaurantNames ==
    << "Pizza Hut", "Sushi Go", "Taco Town", "Pasta Casa", "Curry Leaf",
       "Burger Barn", "Noodle Bar", "Ghost Kitchen" >>

AllCuisines == << "Italian", "Japanese", "Mexican", "Indian", "American" >>

Reverse(seq) == [i \in 1..Len(seq) |-> seq[Len(seq) + 1 - i]]

\* iteration orders of sets of strings that a hash seed may give
HashOrders ==
    { AllRestaurantNames \o AllCuisines,
      Reverse(AllRestaurantNames \o AllCuisines) }

---------------------------------------------------------------------------
(* RecommendationEngine: the builders *)

\* mutant: the order value is not capped
calculate_interaction_weight_uncapped(total, status) ==
    LET value_weight == (total * F) \div 500
        status_weight ==
            CASE status = "Delivered" -> 1000
              [] status = "In Transit" -> 800
              [] status = "Preparing" -> 600
              [] status = "Cancelled" -> 100
              [] OTHER -> 500
    IN  (value_weight * status_weight) \div F

calculate_interaction_weight(total, status) ==
    LET base_weight == F
        value_weight == Min((total * F) \div 500, 2 * F)
        status_weight ==
            CASE status = "Delivered" -> 1000
              [] status = "In Transit" -> 800
              [] status = "Preparing" -> 600
              [] status = "Cancelled" -> 100
              [] OTHER -> 500
    IN  (((base_weight * value_weight) \div F) * status_weight) \div F

\* mutant: a later order at the restaurant replaces the earlier ones
order_weights_last_only(orders, restaurant) ==
    LET placed == SelectSeq(orders, LAMBDA o : o.restaurant = restaurant)
    IN  IF placed = << >> THEN << >>
        ELSE << calculate_interaction_weight(placed[Len(placed)].total,
                                             placed[Len(placed)].status) >>

\* the weights of the orders of the list placed at the restaurant
order_weights(orders, restaurant) ==
    [ i \in 1..Len(SelectSeq(orders, LAMBDA o : o.restaurant = restaurant))
        |-> LET o == SelectSeq(orders,
                               LAMBDA x : x.restaurant = restaurant)[i]
            IN  calculate_interaction_weight(o.total, o.status) ]

\* the outcome of a builder or a request: it raised, or it returned a value
Raised == [raised |-> TRUE]
Returned(value) == [raised |-> FALSE, value |-> value]

build_user_item_matrix(users, order) ==
    LET all_users == SelectSeq(UserOrder, LAMBDA u : Len(users[u]) > 0)
        ordered == UNION { { o.restaurant : o \in Range(users[u]) } :
                           u \in UserNames }
        all_restaurants == list_of_set(ordered, order)
    IN  IF \E u \in UserNames : \E o \in Range(users[u]) : ~o.total_is_number
        THEN Raised
        ELSE Returned(
               [is_none |-> FALSE,
                index |-> all_users,
                columns |-> all_restaurants,
                cell |-> [ u \in Range(all_users) |->
                           [ r \in ordered |->
                               SumSeq(order_weights(users[u], r)) ] ]])

\* the first catalog entry of that name, NoneObj when there is none
catalog_lookup(catalog, name) ==
    IF \E i \in 1..Len(catalog) : catalog[i].name = name
    THEN LET i == CHOOSE i \in 1..Len(catalog) :
                    /\ catalog[i].name = name
                    /\ \A j \in 1..(i - 1) : catalog[j].name # name
         IN  [is_none |-> FALSE, info |-> catalog[i]]
    ELSE NoneObj

build_restaurant_features(users, catalog, order) ==
    LET all_restaurants ==
            UNION { { o.restaurant : o \in Range(users[u]) } :
                    u \in UserNames }
            \cup { catalog[i].name : i \in 1..Len(catalog) }
        cuisine_types ==
            list_of_set({ catalog[i].cuisine : i \in 1..Len(catalog) }, order)
        restaurants ==
            SelectSeq(list_of_set(all_restaurants, order),
                      LAMBDA name : name # "")
        feature_vector(name) ==
            LET found == catalog_lookup(catalog, name) IN
            IF ~found.is_none
            THEN [rating |-> found.info.rating,
                  delivery_time |->
                      parse_delivery_time(found.info.delivery_time),
                  cuisine |-> [ c \in Range(cuisine_types) |->
                                  IF found.info.cuisine = c THEN F ELSE 0 ]]
            ELSE [rating |-> 4 * F,
                  delivery_time |-> 30 * F,
                  cuisine |-> [ c \in Range(cuisine_types) |-> 0 ]]
    IN  Returned(
          [is_none |-> FALSE,
           index |-> restaurants,
           row |-> [ name \in Range(restaurants) |-> feature_vector(name) ]])

DefaultProfile ==
    [avg_order_value |-> 500 * F,
     preferred_cuisines |-> << >>,
     price_sensitivity |-> 500,
     rating_preference |-> 4 * F,
     delivery_time_preference |-> 30 * F,
     order_frequency |-> 100]

\* the catalog entries the orders resolve to, one per order that resolves
resolved_entries(orders, catalog) ==
    LET hits == SelectSeq(orders,
                    LAMBDA o : ~catalog_lookup(catalog, o.restaurant).is_none)
    IN  [ i \in 1..Len(hits) |->
            catalog_lookup(catalog, hits[i].restaurant).info ]

\* mutant: the order value is averaged over the resolved orders only
build_profile_resolved_mean(orders, catalog) ==
    IF orders = << >> THEN DefaultProfile
    ELSE
    LET total_spent == SumSeq([i \in 1..Len(orders) |-> orders[i].total * F])
        resolved == resolved_entries(orders, catalog)
        avg_order_value == IF resolved = << >> THEN 0
                           ELSE total_spent \div Len(resolved)
        valid_restaurants == Len(resolved)
        cuisine_counts ==
            [ c \in { resolved[i].cuisine : i \in 1..Len(resolved) } |->
                Cardinality({ i \in 1..Len(resolved) :
                                resolved[i].cuisine = c }) ]
        total_ratings ==
            SumSeq([i \in 1..Len(resolved) |-> resolved[i].rating])
        total_delivery_times ==
            SumSeq([i \in 1..Len(resolved) |->
                      parse_delivery_time(resolved[i].delivery_time)])
        total_cuisine_orders == valid_restaurants
        cuisine_prefs ==
            [ c \in DOMAIN cuisine_counts |->
                (cuisine_counts[c] * F) \div total_cuisine_orders ]
    IN  [avg_order_value |-> avg_order_value,
         preferred_cuisines |-> cuisine_prefs,
         price_sensitivity |-> Min(avg_order_value \div 1000, F),
         rating_preference |->
             IF valid_restaurants > 0
             THEN total_ratings \div valid_restaurants ELSE 4 * F,
         delivery_time_preference |->
             IF valid_restaurants > 0
             THEN total_delivery_times \div valid_restaurants ELSE 30 * F,
         order_frequency |-> (Len(orders) * F) \div 30]

build_profile(orders, catalog) ==
    IF orders = << >> THEN DefaultProfile
    ELSE
    LET total_spent == SumSeq([i \in 1..Len(orders) |-> orders[i].total * F])
        avg_order_value == total_spent \div Len(orders)
        resolved == resolved_entries(orders, catalog)
        valid_restaurants == Len(resolved)
        cuisine_counts ==
            [ c \in { resolved[i].cuisine : i \in 1..Len(resolved) } |->
                Cardinality({ i \in 1..Len(resolved) :
                                resolved[i].cuisine = c }) ]
        total_ratings ==
            SumSeq([i \in 1..Len(resolved) |-> resolved[i].rating])
        total_delivery_times ==
            SumSeq([i \in 1..Len(resolved) |->
                      parse_delivery_time(resolved[i].delivery_time)])
        total_cuisine_orders == valid_restaurants
        cuisine_prefs ==
            [ c \in DOMAIN cuisine_counts |->
                (cuisine_counts[c] * F) \div total_cuisine_orders ]
    IN  [avg_order_value |-> avg_order_value,
         preferred_cuisines |-> cuisine_prefs,
         price_sensitivity |-> Min(avg_order_value \div 1000, F),
         rating_preference |->
             IF valid_restaurants > 0
             THEN total_ratings \div valid_restaurants ELSE 4 * F,
         delivery_time_preference |->
             IF valid_restaurants > 0
             THEN total_delivery_times \div valid_restaurants ELSE 30 * F,
         order_frequency |-> (Len(orders) * F) \div 30]

build_user_profiles(matrix, users, catalog) ==
    Returned(
      [is_none |-> FALSE,
       profile |-> [ username \in Range(matrix.index) |->
                       build_profile(users[username], catalog) ]])

\* mutant: only the left operand of the product is normalized
calculate_similarities_half_normalized(matrix) ==
    IF matrix.is_none \/ matrix.index = << >> \/ matrix.columns = << >>
    THEN NoneObj
    ELSE
    LET n == Len(matrix.index)
        row(i) == matrix.cell[matrix.index[i]]
        sum_squares(i) ==
            SumSeq([k \in 1..Len(matrix.columns) |->
                      row(i)[matrix.columns[k]] * row(i)[matrix.columns[k]]])
        norm(i) == IF sqrt_fixed(sum_squares(i)) = 0 THEN F
                   ELSE sqrt_fixed(sum_squares(i))
        normalized ==
            [ i \in 1..n |->
                [ r \in Range(matrix.columns) |-> (row(i)[r] * F) \div norm(i) ] ]
    IN  [is_none |-> FALSE,
         sim |-> [ i \in 1..n |->
                   [ j \in 1..n |->
                       SumSeq([k \in 1..Len(matrix.columns) |->
                                 normalized[i][matrix.columns[k]]
                                 * row(j)[matrix.columns[k]]])
                       \div F ] ]]

calculate_similarities(matrix) ==
    IF matrix.is_none \/ matrix.index = << >> \/ matrix.columns = << >>
    THEN NoneObj
    ELSE
    LET n == Len(matrix.index)
        row(i) == matrix.cell[matrix.index[i]]
        sum_squares(i) ==
            SumSeq([k \in 1..Len(matrix.columns) |->
                      row(i)[matrix.columns[k]] * row(i)[matrix.columns[k]]])
        norm(i) == IF sqrt_fixed(sum_squares(i)) = 0 THEN F
                   ELSE sqrt_fixed(sum_squares(i))
        normalized ==
            [ i \in 1..n |->
                [ r \in Range(matrix.columns) |-> (row(i)[r] * F) \div norm(i) ] ]
    IN  [is_none |-> FALSE,
         sim |-> [ i \in 1..n |->
                   [ j \in 1..n |->
                       SumSeq([k \in 1..Len(matrix.columns) |->
                                 normalized[i][matrix.columns[k]]
                                 * normalized[j][matrix.columns[k]]])
                       \div F ] ]]

\* the four attributes after __init__: each builder runs unless one before
\* it raised, and an attribute whose builder did not finish stays None
initialize_data(users, catalog, order) ==
    LET m == build_user_item_matrix(users, order)
        f == build_restaurant_features(users, catalog, order)
        p == build_user_profiles(m.value, users, catalog)
    IN  IF m.raised
        THEN [user_item_matrix |-> NoneObj, restaurant_features |-> NoneObj,
              user_profiles |-> NoneObj, similarity_matrix |-> NoneObj]
        ELSE IF f.raised
        THEN [user_item_matrix |-> m.value, restaurant_features |-> NoneObj,
              user_profiles |-> NoneObj, similarity_matrix |-> NoneObj]
        ELSE IF p.raised
        THEN [user_item_matrix |-> m.value, restaurant_features |-> f.value,
              user_profiles |-> NoneObj, similarity_matrix |-> NoneObj]
        ELSE [user_item_matrix |-> m.value, restaurant_features |-> f.value,
              user_profiles |-> p.value,
              similarity_matrix |-> calculate_similarities(m.value)]

---------------------------------------------------------------------------
(* RecommendationEngine objects and the threads that build and read them.  *)
(* An object is kept as, per attribute, the build that assigned it last     *)
(* and whether it is None, and whether its __init__ has returned.           *)

Attributes == << "user_item_matrix", "restaurant_features", "user_profiles",
                "similarity_matrix" >>

\* the object when __init__ has assigned None to the four attributes
new_instance(build) ==
    [constructed |-> FALSE,
     attrs |-> [ a \in Range(Attributes) |->
                   [build |-> build, is_none |-> TRUE] ]]

\* the object when __init__ has returned
built_instance(build, built) ==
    [constructed |-> TRUE,
     attrs |-> [ a \in Range(Attributes) |->
                   [build |-> build, is_none |-> built[a].is_none] ]]

BuilderIdle(build) == [pc |-> "idle", self |-> 0, build |-> build]

ReaderIdle == [pc |-> "idle", self |-> 0, next |-> 0, seen |-> {}]

\* the module after import: one object, built, bound to the global
SwapQuiet ==
    /\ instances =
         << built_instance(1, [user_item_matrix |-> user_item_matrix,
                               restaurant_features |-> restaurant_features,
                               user_profiles |-> user_profiles,
                               similarity_matrix |-> similarity_matrix]) >>
    /\ recommendation_engine = 1
    /\ builder = BuilderIdle(1)
    /\ reader = ReaderIdle

---------------------------------------------------------------------------
(* RecommendationEngine: the requests *)

\* np.argsort(values): the positions by ascending value, equal values by
\* ascending position (numpy sorts arrays this short by insertion)
argsort(values) ==
    LET by_value == sorted_asc([i \in 1..Len(values) |->
                                  [idx |-> i, score |-> values[i]]])
    IN  [k \in 1..Len(values) |-> by_value[k].idx]

RECURSIVE first_occurrences(_)
\* the keys of a dict in insertion order, from the sequence of keys written
first_occurrences(keys) ==
    IF keys = << >> THEN << >>
    ELSE LET before == first_occurrences(SubSeq(keys, 1, Len(keys) - 1))
             last == keys[Len(keys)]
         IN  IF last \in Range(before) THEN before ELSE Append(before, last)

\* a defaultdict(float) after `d[key] += amount` for each write in turn, as
\* the list of its items
accumulate(writes) ==
    LET keys == first_occurrences([i \in 1..Len(writes) |-> writes[i].name])
    IN  [ k \in 1..Len(keys) |->
            [name |-> keys[k],
             score |-> SumSeq([ i \in 1..Len(SelectSeq(writes,
                                   LAMBDA w : w.name = keys[k])) |->
                                  SelectSeq(writes,
                                   LAMBDA w : w.name = keys[k])[i].score ])] ]

RECURSIVE flatten(_)
flatten(lists) ==
    IF lists = << >> THEN << >> ELSE Head(lists) \o flatten(Tail(lists))

DefaultLabel == <<"3","0","-","4","0"," ","m","i","n">>

get_restaurant_info(restaurant_name) ==
    LET found == catalog_lookup(RESTAURANT_RECOMMENDATIONS, restaurant_name)
    IN  IF ~found.is_none THEN found.info
        ELSE [name |-> restaurant_name, cuisine |-> "Mixed",
              rating |-> 4 * F, delivery_time |-> DefaultLabel]

\* mutant: the catalog entry itself is returned, not a copy of it
restaurant_info_target_entry(restaurant_name) ==
    IF \E i \in 1..Len(RESTAURANT_RECOMMENDATIONS) :
          RESTAURANT_RECOMMENDATIONS[i].name = restaurant_name
    THEN CHOOSE i \in 1..Len(RESTAURANT_RECOMMENDATIONS) :
           /\ RESTAURANT_RECOMMENDATIONS[i].name = restaurant_name
           /\ \A j \in 1..(i - 1) :
                 RESTAURANT_RECOMMENDATIONS[j].name # restaurant_name
    ELSE 0

\* the dict that _get_restaurant_info returns, as the place where a write
\* onto it lands: the position of a catalog entry, or 0 for a new dict
\* (restaurant.copy() and the dict literal both make one)
restaurant_info_target(restaurant_name) == 0

\* the catalog after restaurant_info['recommendation_score'] = ... and
\* restaurant_info['recommendation_type'] = ... for the records of the list
written_catalog(recs) ==
    [ i \in 1..Len(RESTAURANT_RECOMMENDATIONS) |->
        LET entry == RESTAURANT_RECOMMENDATIONS[i]
            writes == { k \in 1..Len(recs) :
                          /\ "recommendation_type" \in DOMAIN recs[k]
                          /\ restaurant_info_target(recs[k].name) = i }
        IN  IF writes = {} THEN entry
            ELSE LET k == CHOOSE k \in writes : \A j \in writes : j <= k
                 IN  [name |-> entry.name,
                      cuisine |-> entry.cuisine,
                      rating |-> entry.rating,
                      delivery_time |-> entry.delivery_time,
                      recommendation_score |-> recs[k].recommendation_score,
                      recommendation_type |-> recs[k].recommendation_type] ]

\* restaurant_info with recommendation_score and recommendation_type set
recommendation(restaurant, score, type) ==
    LET restaurant_info == get_restaurant_info(restaurant) IN
    [name |-> restaurant_info.name,
     cuisine |-> restaurant_info.cuisine,
     rating |-> restaurant_info.rating,
     delivery_time |-> restaurant_info.delivery_time,
     recommendation_score |-> score,
     recommendation_type |-> type]

position_in(seq, x) == CHOOSE i \in 1..Len(seq) : seq[i] = x

\* mutant: nothing counts as tried
user_restaurants_none(username) == {}

\* the columns where the user's row is > 0
user_restaurants_of(username) ==
    { r \in Range(user_item_matrix.columns) :
        user_item_matrix.cell[username][r] > 0 }

\* np.argsort(user_similarities)[::-1][1:6], for a user of the index
similar_users_idx(username) ==
    LET user_idx == position_in(user_item_matrix.index, username)
        user_similarities == similarity_matrix.sim[user_idx]
        descending == Reverse(argsort(user_similarities))
    IN  SubSeq(descending, 2, Min(6, Len(descending)))

collaborative_recommendations(username, n_recommendations) ==
    IF \/ user_item_matrix.is_none
       \/ username \notin Range(user_item_matrix.index)
       \/ similarity_matrix.is_none
    THEN Returned(<< >>)
    ELSE
    LET user_idx == position_in(user_item_matrix.index, username)
        user_similarities == similarity_matrix.sim[user_idx]
        user_restaurants == user_restaurants_of(username)
        writes_of(similar_user_idx) ==
            LET similarity_score == user_similarities[similar_user_idx]
                similar_user == user_item_matrix.index[similar_user_idx]
                liked == SelectSeq(user_item_matrix.columns,
                           LAMBDA r :
                             /\ user_item_matrix.cell[similar_user][r] > 0
                             /\ r \notin user_restaurants)
            IN  IF similarity_score <= 0 THEN << >>
                ELSE [ k \in 1..Len(liked) |->
                         [name |-> liked[k],
                          score |-> (similarity_score
                                     * user_item_matrix.cell[similar_user][liked[k]])
                                    \div F] ]
        restaurant_scores ==
            accumulate(flatten([ k \in 1..Len(similar_users_idx(username)) |->
                                   writes_of(similar_users_idx(username)[k]) ]))
        sorted_restaurants ==
            take(sorted_desc(restaurant_scores), n_recommendations)
    IN  Returned([ k \in 1..Len(sorted_restaurants) |->
                     recommendation(sorted_restaurants[k].name,
                                    sorted_restaurants[k].score,
                                    "collaborative") ])

\* mutant: the delivery term is not floored at 0
content_score_unclamped(user_profile, features) ==
    LET rating_score == features.rating \div 5
        delivery_score ==
            F - Abs(features.delivery_time
                    - user_profile.delivery_time_preference) \div 30
        liked == { c \in DOMAIN user_profile.preferred_cuisines :
                     /\ c \in DOMAIN features.cuisine
                     /\ features.cuisine[c] > 0 }
        cuisine_score ==
            SumSeq([ k \in 1..Len(SelectSeq(AllCuisines,
                                            LAMBDA c : c \in liked)) |->
                       user_profile.preferred_cuisines[
                           SelectSeq(AllCuisines, LAMBDA c : c \in liked)[k]] ])
    IN  (rating_score * 3) \div 10
        + (delivery_score * 2) \div 10
        + (cuisine_score * 5) \div 10

content_score(user_profile, features) ==
    LET rating_score == features.rating \div 5
        delivery_time == features.delivery_time
        user_delivery_pref == user_profile.delivery_time_preference
        delivery_score ==
            Max(0, F - Abs(delivery_time - user_delivery_pref) \div 30)
        liked == { c \in DOMAIN user_profile.preferred_cuisines :
                     /\ c \in DOMAIN features.cuisine
                     /\ features.cuisine[c] > 0 }
        cuisine_score ==
            SumSeq([ k \in 1..Len(SelectSeq(AllCuisines,
                                            LAMBDA c : c \in liked)) |->
                       user_profile.preferred_cuisines[
                           SelectSeq(AllCuisines, LAMBDA c : c \in liked)[k]] ])
    IN  (rating_score * 3) \div 10
        + (delivery_score * 2) \div 10
        + (cuisine_score * 5) \div 10

\* the restaurants of the user's orders
tried_restaurants_of(username) ==
    IF username \in DOMAIN MOCK_USERS
    THEN { o.restaurant : o \in Range(MOCK_USERS[username]) }
    ELSE {}

content_based_recommendations(username, n_recommendations) ==
    IF user_profiles.is_none THEN Raised
    ELSE IF username \notin DOMAIN user_profiles.profile
    THEN Returned(<< >>)
    ELSE
    LET user_profile == user_profiles.profile[username]
        scored == SelectSeq(restaurant_features.index,
                            LAMBDA restaurant : restaurant # "")
        restaurant_scores ==
            [ k \in 1..Len(scored) |->
                [name |-> scored[k],
                 score |-> content_score(user_profile,
                                         restaurant_features.row[scored[k]])] ]
        tried_restaurants == tried_restaurants_of(username)
        filtered_scores ==
            SelectSeq(restaurant_scores,
                      LAMBDA item : item.name \notin tried_restaurants)
        sorted_restaurants ==
            take(sorted_desc(filtered_scores), n_recommendations)
    IN  Returned([ k \in 1..Len(sorted_restaurants) |->
                     recommendation(sorted_restaurants[k].name,
                                    sorted_restaurants[k].score,
                                    "content_based") ])

\* the hybrid record of a recommendation: its fields, final_score (in
\* tenths of thousandths: the score times 6 or 4) and the type 'hybrid'
hybrid_record(rec, final_score) ==
    [name |-> rec.name, cuisine |-> rec.cuisine, rating |-> rec.rating,
     delivery_time |-> rec.delivery_time,
     recommendation_score |-> rec.recommendation_score,
     recommendation_type |-> "hybrid",
     final_score |-> final_score]

\* rec['recommendation_score'] * 0.6, in tenths of thousandths
collaborative_weighted(score) == score * 6

\* mutant: the content score is weighted like the collaborative one
content_weighted_like_collaborative(score) == score * 6

\* rec['recommendation_score'] * 0.4, in tenths of thousandths
content_weighted(score) == score * 4

hybrid_combine(collaborative_recs, content_recs, n_recommendations) ==
    LET names(recs) == [k \in 1..Len(recs) |-> recs[k].name]
        keys == first_occurrences(names(collaborative_recs)
                                  \o names(content_recs))
        in_collab(name) == name \in Range(names(collaborative_recs))
        in_content(name) == name \in Range(names(content_recs))
        collab_of(name) ==
            collaborative_recs[position_in(names(collaborative_recs), name)]
        content_of(name) ==
            content_recs[position_in(names(content_recs), name)]
        entry(name) ==
            IF in_collab(name)
            THEN hybrid_record(
                   collab_of(name),
                   collaborative_weighted(collab_of(name).recommendation_score)
                   + (IF in_content(name)
                      THEN content_weighted(
                             content_of(name).recommendation_score)
                      ELSE 0))
            ELSE hybrid_record(
                   content_of(name),
                   content_weighted(content_of(name).recommendation_score))
        all_recommendations ==
            [ k \in 1..Len(keys) |->
                [score |-> entry(keys[k]).final_score, rec |-> entry(keys[k])] ]
        sorted_recommendations ==
            take(sorted_desc(all_recommendations), n_recommendations)
    IN  [ k \in 1..Len(sorted_recommendations) |->
            sorted_recommendations[k].rec ]

hybrid_recommendations(username, n_recommendations) ==
    LET collaborative_recs ==
            collaborative_recommendations(username, n_recommendations)
        content_recs ==
            content_based_recommendations(username, n_recommendations)
    IN  IF collaborative_recs.raised \/ content_recs.raised THEN Raised
        ELSE Returned(hybrid_combine(collaborative_recs.value,
                                     content_recs.value, n_recommendations))

\* mutant: an order exactly 7 days old no longer counts as recent
recency_weight_strict(order) ==
    IF ~order.date_parses THEN 100
    ELSE LET days_ago == order.days_ago + today
         IN  IF days_ago < 7 THEN 1000
             ELSE IF days_ago <= 30 THEN 500
             ELSE 100

\* the popularity weight of one order
recency_weight(order) ==
    IF ~order.date_parses THEN 100
    ELSE LET days_ago == order.days_ago + today
         IN  IF days_ago <= 7 THEN 1000
             ELSE IF days_ago <= 30 THEN 500
             ELSE 100

trending_recommendations(n_recommendations) ==
    LET orders == flatten([ u \in 1..Len(UserOrder) |->
                              MOCK_USERS[UserOrder[u]] ])
        restaurant_popularity ==
            accumulate([ k \in 1..Len(orders) |->
                           [name |-> orders[k].restaurant,
                            score |-> recency_weight(orders[k])] ])
        sorted_restaurants ==
            take(sorted_desc(restaurant_popularity), n_recommendations)
    IN  Returned([ k \in 1..Len(sorted_restaurants) |->
                     recommendation(sorted_restaurants[k].name,
                                    sorted_restaurants[k].score,
                                    "trending") ])

\* mutant: both static lists are cut to 4
static_fallback_short ==
    [hybrid |-> take(RESTAURANT_RECOMMENDATIONS, 4),
     collaborative |-> << >>,
     content_based |-> << >>,
     trending |-> take(RESTAURANT_RECOMMENDATIONS, 4)]

\* the result of the except branch
static_fallback ==
    [hybrid |-> take(RESTAURANT_RECOMMENDATIONS, 6),
     collaborative |-> << >>,
     content_based |-> << >>,
     trending |-> take(RESTAURANT_RECOMMENDATIONS, 4)]

personalized_recommendations(username) ==
    LET hybrid == hybrid_recommendations(username, 6)
        collaborative == collaborative_recommendations(username, 4)
        content_based == content_based_recommendations(username, 4)
        trending == trending_recommendations(4)
    IN  IF \/ hybrid.raised \/ collaborative.raised
           \/ content_based.raised \/ trending.raised
        THEN Returned(static_fallback)
        ELSE Returned([hybrid |-> hybrid.value,
                       collaborative |-> collaborative.value,
                       content_based |-> content_based.value,
                       trending |-> trending.value])

---------------------------------------------------------------------------
(* The requests as steps: one request is served at a time, and its response  *)
(* stays until the caller has taken it.                                     *)

Idle == [op |-> "idle"]

\* a request, with the day on which it is made
Request(op, username, n) ==
    [op |-> op, username |-> username, n |-> n, day |-> today]

\* the records a request has annotated when it returns
annotated(op, outcome) ==
    IF outcome.raised THEN << >>
    ELSE IF op = "personalized"
    THEN outcome.value.collaborative \o outcome.value.content_based
         \o outcome.value.trending
    ELSE outcome.value

serve(op, username, n, outcome) ==
    /\ request = Idle
    /\ request' = Request(op, username, n)
    /\ response' = outcome
    /\ RESTAURANT_RECOMMENDATIONS' = written_catalog(annotated(op, outcome))
    /\ UNCHANGED << MOCK_USERS, hash_order, engine_vars, conv_vars, today,
                    swap_vars >>

get_collaborative_recommendations(username, n) ==
    serve("collaborative", username, n,
          collaborative_recommendations(username, n))

get_content_based_recommendations(username, n) ==
    serve("content_based", username, n,
          content_based_recommendations(username, n))

get_hybrid_recommendations(username, n) ==
    serve("hybrid", username, n, hybrid_recommendations(username, n))

get_trending_recommendations(n) ==
    serve("trending", "", n, trending_recommendations(n))

\* mutant: the static lists are served whatever the engine holds
get_personalized_recommendations_static(username) ==
    serve("personalized", username, 0, Returned(static_fallback))

get_personalized_recommendations(username) ==
    serve("personalized", username, 0, personalized_recommendations(username))

update_recommendation_model ==
    /\ request = Idle
    /\ LET built == initialize_data(MOCK_USERS, RESTAURANT_RECOMMENDATIONS,
                                    hash_order)
       IN  /\ user_item_matrix' = built.user_item_matrix
           /\ restaurant_features' = built.restaurant_features
           /\ user_profiles' = built.user_profiles
           /\ similarity_matrix' = built.similarity_matrix
    /\ request' = Request("update_recommendation_model", "", 0)
    /\ response' = Returned(TRUE)
    /\ UNCHANGED << data_vars, conv_vars, today, swap_vars >>

\* the caller takes the response
return_to_caller ==
    /\ request # Idle
    /\ request' = Idle
    /\ response' = Idle
    /\ UNCHANGED << data_vars, engine_vars, conv_vars, today, swap_vars >>

\* a midnight passes: datetime.now() is one day later
midnight ==
    /\ today < MaxDays
    /\ today' = today + 1
    /\ UNCHANGED << data_vars, engine_vars, request, response, conv_vars,
                    swap_vars >>

---------------------------------------------------------------------------
(* update_recommendation_model and get_ml_recommendations as threads       *)

\* mutant: the object bound to the global is initialized again in place
swap_begin_in_place ==
    /\ builder.pc = "idle"
    /\ builder.build <= MaxBuilds
    /\ builder' = [pc |-> "user_item_matrix", self |-> recommendation_engine,
                   build |-> builder.build + 1]
    /\ UNCHANGED << instances, recommendation_engine, reader, data_vars,
                    engine_vars, request, response, today, conv_vars >>

\* RecommendationEngine(): a new object, its four attributes None
swap_begin ==
    /\ builder.pc = "idle"
    /\ builder.build <= MaxBuilds
    /\ instances' = Append(instances, new_instance(builder.build + 1))
    /\ builder' = [pc |-> "user_item_matrix", self |-> Len(instances) + 1,
                   build |-> builder.build + 1]
    /\ UNCHANGED << recommendation_engine, reader, data_vars, engine_vars,
                    request, response, today, conv_vars >>

\* what _initialize_data leaves in the attributes, and the builder that
\* raised ("" when none did)
SwapBuilt ==
    initialize_data(MOCK_USERS, RESTAURANT_RECOMMENDATIONS, hash_order)

RaisedIn ==
    IF build_user_item_matrix(MOCK_USERS, hash_order).raised
    THEN "user_item_matrix"
    ELSE IF build_restaurant_features(MOCK_USERS, RESTAURANT_RECOMMENDATIONS,
                                      hash_order).raised
    THEN "restaurant_features"
    ELSE IF build_user_profiles(SwapBuilt.user_item_matrix, MOCK_USERS,
                                RESTAURANT_RECOMMENDATIONS).raised
    THEN "user_profiles"
    ELSE ""

\* one builder of _initialize_data runs in the object under construction:
\* it assigns its attribute, or raises and __init__ returns
swap_build(k) ==
    LET attr == Attributes[k]
        last == k = Len(Attributes)
    IN  /\ builder.pc = attr
        /\ IF RaisedIn = attr
           THEN /\ instances' =
                     [instances EXCEPT ![builder.self].constructed = TRUE]
                /\ builder' = [builder EXCEPT !.pc = "bind"]
           ELSE /\ instances' =
                     [instances EXCEPT
                        ![builder.self].attrs[attr] =
                            IF SwapBuilt[attr].is_none THEN @
                            ELSE [build |-> builder.build,
                                  is_none |-> FALSE],
                        ![builder.self].constructed = last]
                /\ builder' = [builder EXCEPT
                                 !.pc = IF last THEN "bind"
                                        ELSE Attributes[k + 1]]
        /\ UNCHANGED << recommendation_engine, reader, data_vars, engine_vars,
                        request, response, today, conv_vars >>

\* recommendation_engine = <the object>: the global is bound to it
swap_bind ==
    /\ builder.pc = "bind"
    /\ recommendation_engine' = builder.self
    /\ user_item_matrix' = SwapBuilt.user_item_matrix
    /\ restaurant_features' = SwapBuilt.restaurant_features
    /\ user_profiles' = SwapBuilt.user_profiles
    /\ similarity_matrix' = SwapBuilt.similarity_matrix
    /\ builder' = BuilderIdle(builder.build)
    /\ UNCHANGED << instances, reader, data_vars, request, response, today,
                    conv_vars >>

\* the attributes get_personalized_recommendations reads, in turn: the
\* hybrid list reads those of the collaborative and of the content-based
\* list, then these two lists are computed again
ReadPlan ==
    << "user_item_matrix", "similarity_matrix",
       "user_profiles", "restaurant_features",
       "user_item_matrix", "similarity_matrix",
       "user_profiles", "restaurant_features" >>

\* get_ml_recommendations loads the global and calls the method on it
reader_load ==
    /\ reader.pc = "idle"
    /\ reader' = [pc |-> "reading", self |-> recommendation_engine,
                  next |-> 1, seen |-> {}]
    /\ UNCHANGED << instances, recommendation_engine, builder, data_vars,
                    engine_vars, request, response, today, conv_vars >>

\* the method reads one attribute of self: a None matrix returns before
\* the similarity matrix is read, a None profile dict raises and ends the
\* request with the static lists
reader_read ==
    /\ reader.pc = "reading"
    /\ LET attr == ReadPlan[reader.next]
           object == instances[reader.self]
           read == [attr |-> attr, instance |-> reader.self,
                    build |-> object.attrs[attr].build,
                    constructed |-> object.constructed]
           none == object.attrs[attr].is_none
           after == IF attr = "user_item_matrix" /\ none
                    THEN reader.next + 2
                    ELSE reader.next + 1
           over == \/ after > Len(ReadPlan)
                   \/ attr = "user_profiles" /\ none
       IN  reader' = [reader EXCEPT
                        !.seen = @ \cup {read},
                        !.next = after,
                        !.pc = IF over THEN "done" ELSE "reading"]
    /\ UNCHANGED << instances, recommendation_engine, builder, data_vars,
                    engine_vars, request, response, today, conv_vars >>

\* get_ml_recommendations returns
reader_return ==
    /\ reader.pc = "done"
    /\ reader' = ReaderIdle
    /\ UNCHANGED << instances, recommendation_engine, builder, data_vars,
                    engine_vars, request, response, today, conv_vars >>

Callers == UserNames \cup {UnknownUser}

RecNext ==
    \/ \E username \in Callers, n \in 1..MaxN :
          get_collaborative_recommendations(username, n)
    \/ \E username \in Callers, n \in 1..MaxN :
          get_content_based_recommendations(username, n)
    \/ \E username \in Callers, n \in 1..MaxN :
          get_hybrid_recommendations(username, n)
    \/ \E n \in 1..MaxN : get_trending_recommendations(n)
    \/ \E username \in Callers : get_personalized_recommendations(username)
    \/ update_recommendation_model
    \/ return_to_caller

---------------------------------------------------------------------------
(* Specifications *)

RecInit ==
    /\ \E pl \in Placements :
          MOCK_USERS = [u \in UserNames |-> orders_of(pl, u)]
    /\ RESTAURANT_RECOMMENDATIONS = Catalog
    /\ hash_order \in HashOrders
    /\ LET built == initialize_data(MOCK_USERS, RESTAURANT_RECOMMENDATIONS,
                                    hash_order)
       IN  /\ user_item_matrix = built.user_item_matrix
           /\ restaurant_features = built.restaurant_features
           /\ user_profiles = built.user_profiles
           /\ similarity_matrix = built.similarity_matrix
    /\ request = Idle
    /\ response = Idle
    /\ today = 0
    /\ SwapQuiet

\* the engine of a process without order history, left alone
RecQuiet ==
    /\ MOCK_USERS = [u \in UserNames |-> << >>]
    /\ RESTAURANT_RECOMMENDATIONS = Catalog
    /\ hash_order = AllRestaurantNames \o AllCuisines
    /\ LET built == initialize_data(MOCK_USERS, RESTAURANT_RECOMMENDATIONS,
                                    hash_order)
       IN  /\ user_item_matrix = built.user_item_matrix
           /\ restaurant_features = built.restaurant_features
           /\ user_profiles = built.user_profiles
           /\ similarity_matrix = built.similarity_matrix
    /\ request = Idle
    /\ response = Idle
    /\ today = 0
    /\ SwapQuiet

\* one chat session, the engine left alone
ConvSpecInit == ConvInit /\ PageInit /\ RecQuiet

ConvSpec == ConvSpecInit /\ [][ConvNext]_vars

\* the tracker with a caller that keeps the state it was given
HeldNext ==
    \/ \E message \in { Msg_refund, Msg_thanks } :
          add_user_message(message) /\ UNCHANGED page_vars
    \/ add_assistant_message(Msg_welcome) /\ UNCHANGED page_vars
    \/ reset_conversation /\ UNCHANGED page_vars
    \/ call_get_conversation_state /\ UNCHANGED page_vars

HeldSpec == ConvSpecInit /\ [][HeldNext]_vars

\* one session on the chat page
PageSpec == ConvSpecInit /\ [][PageNext]_vars

\* order histories in which a restaurant some users paid at was free of
\* charge for others
TriedPool ==
    << Order("Pizza Hut", 600, "Delivered", 0),
       Order("Pizza Hut", 1500, "In Transit", 30),
       Order("Taco Town", 0, "Delivered", 7),
       Order("Taco Town", 600, "Delivered", 3) >>

TriedPlacements ==
    { pl \in [1..Len(TriedPool) -> UserNames \cup {"nobody"}] :
        Cardinality({ i \in 1..Len(TriedPool) :
                        pl[i] # "nobody" /\ TriedPool[i].total > 0 })
            <= MaxOrders }

tried_orders_of(pl, username) ==
    LET mine == SelectSeq([i \in 1..Len(TriedPool) |-> i],
                          LAMBDA i : pl[i] = username)
    IN  [k \in 1..Len(mine) |-> TriedPool[mine[k]]]

TriedSpecInit ==
    /\ ConvInit
    /\ PageInit
    /\ \E pl \in TriedPlacements :
          MOCK_USERS = [u \in UserNames |-> tried_orders_of(pl, u)]
    /\ RESTAURANT_RECOMMENDATIONS = Catalog
    /\ hash_order \in HashOrders
    /\ LET built == initialize_data(MOCK_USERS, RESTAURANT_RECOMMENDATIONS,
                                    hash_order)
       IN  /\ user_item_matrix = built.user_item_matrix
           /\ restaurant_features = built.restaurant_features
           /\ user_profiles = built.user_profiles
           /\ similarity_matrix = built.similarity_matrix
    /\ request = Idle
    /\ response = Idle
    /\ today = 0
    /\ SwapQuiet

TriedNext ==
    \/ \E username \in UserNames, n \in 1..MaxN :
          get_collaborative_recommendations(username, n)
    \/ \E username \in UserNames, n \in 1..MaxN :
          get_content_based_recommendations(username, n)
    \/ return_to_caller

TriedSpec == TriedSpecInit /\ [][TriedNext]_vars

\* the engine serving requests, the tracker left alone
RecSpecInit == RecInit /\ ConvInit /\ PageInit

RecSpec == RecSpecInit /\ [][RecNext]_vars

\* the engine serving the home page over several days
TimeNext ==
    \/ \E n \in 1..MaxN : get_trending_recommendations(n)
    \/ \E username \in Callers : get_personalized_recommendations(username)
    \/ return_to_caller
    \/ midnight

TimeSpecInit == RecInit /\ ConvInit /\ PageInit

TimeSpec == TimeSpecInit /\ [][TimeNext]_vars

\* one thread rebuilding the model while another asks for recommendations
SwapNext ==
    \/ swap_begin
    \/ \E k \in 1..Len(Attributes) : swap_build(k)
    \/ swap_bind
    \/ reader_load
    \/ reader_read
    \/ reader_return

\* the order histories the threads are followed with: at most one order
SwapInit ==
    /\ \E pl \in Placements :
          /\ Cardinality({ i \in DOMAIN pl : pl[i] # "nobody" }) <= 1
          /\ MOCK_USERS = [u \in UserNames |-> orders_of(pl, u)]
    /\ RESTAURANT_RECOMMENDATIONS = Catalog
    /\ hash_order \in HashOrders
    /\ user_item_matrix = SwapBuilt.user_item_matrix
    /\ restaurant_features = SwapBuilt.restaurant_features
    /\ user_profiles = SwapBuilt.user_profiles
    /\ similarity_matrix = SwapBuilt.similarity_matrix
    /\ request = Idle
    /\ response = Idle
    /\ today = 0
    /\ SwapQuiet

SwapSpecInit == SwapInit /\ ConvInit /\ PageInit

SwapSpec == SwapSpecInit /\ [][SwapNext]_vars


---------------------------------------------------------------------------
(* Properties of the conversation tracker *)

TopicOrder == << "refund_request", "order_tracking", "billing_inquiry",
                 "recommendations", "account_management" >>

KeywordsOf(c) ==
    CASE c = 1 -> Kw_refund_request
      [] c = 2 -> Kw_order_tracking
      [] c = 3 -> Kw_billing_inquiry
      [] c = 4 -> Kw_recommendations
      [] c = 5 -> Kw_account_management

\* the categories one of whose keywords occurs in the lower-cased message,
\* tabulated over the chat texts
MatchedCategoriesOf ==
    [ message \in UserTexts \cup AssistantTexts |->
        { c \in 1..5 : \E k \in 1..Len(KeywordsOf(c)) :
                           contains(lower(message), KeywordsOf(c)[k]) } ]

MatchedCategories(message) == MatchedCategoriesOf[message]

FirstCategoryTopic(message) ==
    LET cs == MatchedCategories(message) IN
    IF cs = {} THEN None
    ELSE TopicOrder[CHOOSE c \in cs : \A d \in cs : c <= d]

UserEntries(flow) == { i \in 1..Len(flow) : flow[i].role = "user" }

RECURSIVE LastMatchedTopic(_, _)
\* the topic of the last of the first k flow entries that is a user message
\* matching some category, None if there is none
LastMatchedTopic(flow, k) ==
    IF k = 0 THEN None
    ELSE IF flow[k].role = "user" /\ MatchedCategories(flow[k].message) # {}
         THEN FirstCategoryTopic(flow[k].message)
         ELSE LastMatchedTopic(flow, k - 1)

\* C1: current_topic is the topic of the most recent user message since the
\* last reset that matched a keyword category, None if none matched; a user
\* message without a keyword match leaves current_topic as it was.
C1_TopicIsLastMatch ==
    /\ [](current_topic
            = LastMatchedTopic(conversation_flow, Len(conversation_flow)))
    /\ [][(called' = "add_user_message"
            /\ MatchedCategories(last_user_message'[1]) = {})
          => current_topic' = current_topic]_vars

\* refund request, then "thanks": the topic is still refund_request
C1_Witness ==
    /\ called = "add_user_message"
    /\ Len(conversation_flow) = 2
    /\ conversation_flow[1].message = Msg_refund
    /\ conversation_flow[2].message = Msg_thanks
    /\ conversation_flow[2].role = "user"
    /\ current_topic = "refund_request"

\* C2: the topic detected for a user message is the first category, in the
\* order refund_request, order_tracking, billing_inquiry, recommendations,
\* account_management, with a keyword in the lower-cased message, and None
\* when no category has one.
C2_FirstCategoryWins ==
    \A i \in UserEntries(conversation_flow) :
        conversation_flow[i].topic
            = FirstCategoryTopic(conversation_flow[i].message)

\* a message with a refund and a tracking keyword resolved to refund_request
C2_Witness ==
    \E i \in UserEntries(conversation_flow) :
        /\ {1, 2} \subseteq MatchedCategories(conversation_flow[i].message)
        /\ conversation_flow[i].topic = "refund_request"

FreshTracker ==
    /\ current_topic = None
    /\ message_count = 0
    /\ last_user_message = NoText
    /\ last_assistant_message = NoText
    /\ conversation_flow = << >>
    /\ context = << >>
    /\ get_topic_message_count = 0

\* C3: right after reset_conversation() the tracker is in the state of a
\* freshly constructed one: no topic, count 0, no last messages, empty flow,
\* topic message count 0.
C3_ResetRestoresInitial ==
    called \in {"__init__", "reset_conversation"} => FreshTracker

C3_Witness == called = "reset_conversation" /\ FreshTracker

\* C4: add_user_message appends one 'user' entry and adds 1 to
\* message_count; message_count is the number of 'user' entries of the flow
\* and last_user_message is the text of the last of them.
C4_UserMessageCounted ==
    /\ [](/\ message_count = Cardinality(UserEntries(conversation_flow))
          /\ last_user_message
               = (IF UserEntries(conversation_flow) = {} THEN NoText
                  ELSE Some(conversation_flow[
                         CHOOSE i \in UserEntries(conversation_flow) :
                           \A j \in UserEntries(conversation_flow) : j <= i
                       ].message)))
    /\ [][called' = "add_user_message"
          => /\ Len(conversation_flow') = Len(conversation_flow) + 1
             /\ SubSeq(conversation_flow', 1, Len(conversation_flow))
                  = conversation_flow
             /\ conversation_flow'[Len(conversation_flow')].role = "user"
             /\ message_count' = message_count + 1]_vars

\* two user messages, the second without a topic, and an assistant reply
C4_Witness ==
    /\ Len(conversation_flow) = 3
    /\ message_count = 2
    /\ conversation_flow[2].role = "user"
    /\ conversation_flow[2].topic = None
    /\ conversation_flow[3].role = "assistant"

\* C5: add_assistant_message appends one 'assistant' entry tagged with the
\* topic current at the call, sets last_assistant_message, and leaves
\* current_topic, message_count and last_user_message as they were.
C5_AssistantMessageFrame ==
    [][called' = "add_assistant_message"
       => /\ Len(conversation_flow') = Len(conversation_flow) + 1
          /\ SubSeq(conversation_flow', 1, Len(conversation_flow))
               = conversation_flow
          /\ last_assistant_message' # NoText
          /\ conversation_flow'[Len(conversation_flow')]
               = FlowEntry("assistant", last_assistant_message'[1],
                           current_topic)
          /\ UNCHANGED << current_topic, message_count, last_user_message >>
      ]_vars

\* an assistant text with keywords of its own, tagged with another topic
C5_Witness ==
    /\ called = "add_assistant_message"
    /\ MatchedCategories(last_assistant_message[1]) # {}
    /\ conversation_flow[Len(conversation_flow)].role = "assistant"
    /\ conversation_flow[Len(conversation_flow)].topic
         # FirstCategoryTopic(last_assistant_message[1])

TaggedWithCurrent ==
    { i \in 1..Len(conversation_flow) :
        conversation_flow[i].topic = current_topic }

\* C6: get_topic_message_count() is the number of flow entries, of either
\* role, tagged with current_topic, and 0 when current_topic is None; the
\* call changes nothing of the tracker.
C6_TopicMessageCount ==
    /\ [](get_topic_message_count
            = (IF current_topic = None THEN 0
               ELSE Cardinality(TaggedWithCurrent)))
    /\ [][called' = "get_topic_message_count"
          => /\ returned' = (IF current_topic = None THEN 0
                             ELSE Cardinality(TaggedWithCurrent))
             /\ UNCHANGED << current_topic, context, message_count,
                             last_user_message, last_assistant_message,
                             conversation_flow >>]_vars

\* the count was asked with a user and an assistant entry under the current
\* topic and an entry under another
C6_Witness ==
    /\ called = "get_topic_message_count"
    /\ returned = 2
    /\ Len(conversation_flow) = 3
    /\ \E i, j \in TaggedWithCurrent :
          /\ conversation_flow[i].role = "user"
          /\ conversation_flow[j].role = "assistant"

---------------------------------------------------------------------------
(* Properties of the recommendation engine *)

Names(recs) == { recs[k].name : k \in 1..Len(recs) }

\* the restaurants with a non-zero cell in the user's row
NonZeroCells(username) ==
    IF user_item_matrix.is_none
       \/ username \notin Range(user_item_matrix.index)
    THEN {}
    ELSE { r \in Range(user_item_matrix.columns) :
             user_item_matrix.cell[username][r] # 0 }

\* C7: no restaurant with a non-zero cell in the user's row of the
\* interaction matrix is in the list get_collaborative_recommendations or
\* get_content_based_recommendations returns for that user.
C7_TriedNotRecommended ==
    (request.op \in {"collaborative", "content_based"} /\ ~response.raised)
    => Names(response.value) \cap NonZeroCells(request.username) = {}

\* a collaborative list for a user who shares a restaurant with the user
\* the recommended restaurant comes from
C7_Witness ==
    /\ request.op = "collaborative"
    /\ ~response.raised
    /\ response.value # << >>
    /\ \E other \in Range(user_item_matrix.index) \ {request.username} :
          /\ NonZeroCells(other) \cap NonZeroCells(request.username) # {}
          /\ NonZeroCells(other) \cap Names(response.value) # {}

\* the score the list gives the restaurant, 0 if it is not in the list
RecScore(recs, name) ==
    IF name \in Names(recs)
    THEN recs[CHOOSE k \in 1..Len(recs) : recs[k].name = name]
           .recommendation_score
    ELSE 0

\* 0.6 x collaborative score + 0.4 x content score of the restaurant, a
\* source that does not return it counting 0 (in tenths of thousandths)
WeightedSum(username, n, name) ==
    6 * RecScore(collaborative_recommendations(username, n).value, name)
    + 4 * RecScore(content_based_recommendations(username, n).value, name)

HybridServed == request.op = "hybrid" /\ ~response.raised

\* C8: the final score of a restaurant in a hybrid list is 0.6 x its
\* collaborative score + 0.4 x its content score when both lists (asked
\* with the same n) return it, and 0.6 x resp. 0.4 x the one score when
\* only one does.
C8_HybridScore ==
    HybridServed
    => \A k \in 1..Len(response.value) :
          response.value[k].final_score
            = WeightedSum(request.username, request.n, response.value[k].name)

\* a hybrid list with a restaurant from both sources and one from the
\* content-based list alone
C8_Witness ==
    /\ HybridServed
    /\ LET c == Names(collaborative_recommendations(
                        request.username, request.n).value)
           d == Names(content_based_recommendations(
                        request.username, request.n).value)
       IN  /\ Names(response.value) \cap (c \cap d) # {}
           /\ Names(response.value) \cap (d \ c) # {}

\* C9: a hybrid list holds restaurants of the collaborative and the
\* content-based list for the same n, each once, in non-increasing order of
\* final score, min(n, size of the union) of them, and no restaurant of the
\* union left out has a higher final score than one returned.
C9_HybridOrderedUnion ==
    HybridServed
    => LET recs == response.value
           union == Names(collaborative_recommendations(
                            request.username, request.n).value)
                    \cup Names(content_based_recommendations(
                                 request.username, request.n).value)
       IN  /\ Names(recs) \subseteq union
           /\ \A j, k \in 1..Len(recs) : recs[j].name = recs[k].name => j = k
           /\ Len(recs) = Min(request.n, Cardinality(union))
           /\ \A k \in 1..(Len(recs) - 1) :
                 recs[k].final_score >= recs[k + 1].final_score
           /\ \A name \in union \ Names(recs) : \A k \in 1..Len(recs) :
                 WeightedSum(request.username, request.n, name)
                   <= recs[k].final_score

\* a hybrid list of two restaurants with different final scores that leaves
\* a restaurant of the union out
C9_Witness ==
    /\ HybridServed
    /\ Len(response.value) = 2
    /\ response.value[1].final_score > response.value[2].final_score
    /\ (Names(collaborative_recommendations(
                request.username, request.n).value)
        \cup Names(content_based_recommendations(
                     request.username, request.n).value))
       \ Names(response.value) # {}

\* whether one of the four lists of get_personalized_recommendations raises
SomeListRaises(username) ==
    \/ hybrid_recommendations(username, 6).raised
    \/ collaborative_recommendations(username, 4).raised
    \/ content_based_recommendations(username, 4).raised
    \/ trending_recommendations(4).raised

FirstOfCatalog(n) ==
    [k \in 1..Min(n, Len(RESTAURANT_RECOMMENDATIONS)) |->
       RESTAURANT_RECOMMENDATIONS[k]]

\* C10: get_personalized_recommendations returns and never raises: the lists
\* hybrid(6), collaborative(4), content_based(4), trending(4) when none of
\* them fails, and otherwise the first 6 catalog entries as 'hybrid', the
\* first 4 as 'trending' and empty 'collaborative' and 'content_based'.
C10_PersonalizedNeverRaises ==
    request.op = "personalized"
    => /\ ~response.raised
       /\ IF SomeListRaises(request.username)
          THEN /\ response.value.hybrid = FirstOfCatalog(6)
               /\ response.value.trending = FirstOfCatalog(4)
               /\ response.value.collaborative = << >>
               /\ response.value.content_based = << >>
          ELSE /\ response.value.hybrid
                    = hybrid_recommendations(request.username, 6).value
               /\ response.value.collaborative
                    = collaborative_recommendations(request.username, 4).value
               /\ response.value.content_based
                    = content_based_recommendations(request.username, 4).value
               /\ response.value.trending = trending_recommendations(4).value

\* the engine's initialization failed, a list raises, and the caller got the
\* static lists of 6 and of 4 catalog entries
C10_Witness ==
    /\ request.op = "personalized"
    /\ user_profiles.is_none
    /\ SomeListRaises(request.username)
    /\ ~response.raised
    /\ Len(response.value.hybrid) = 6
    /\ Len(response.value.trending) = 4

---------------------------------------------------------------------------
(* Properties of repeated requests *)

\* what a second get_personalized_recommendations call of the pending
\* request's user returns now
AskedAgain == personalized_recommendations(request.username).value

PersonalizedPending == request.op = "personalized"

---------------------------------------------------------------------------
(* Properties of the built profiles and of failures *)

\* C13: every user whose order history is empty has a built profile, and
\* it is exactly the default profile.
C13_EmptyHistoryDefaultProfile ==
    ~user_profiles.is_none =>
        \A username \in UserNames :
            MOCK_USERS[username] = << >> =>
                /\ username \in DOMAIN user_profiles.profile
                /\ user_profiles.profile[username] = DefaultProfile

ListOps == {"collaborative", "content_based", "hybrid", "trending",
            "personalized"}

\* C14: none of the five public recommendation operations raises, whatever
\* the username and whatever initialization left in the engine.
C14_NoOperationRaises ==
    request.op \in ListOps => ~response.raised

\* the username has no row in the interaction matrix
NoRow(username) ==
    \/ user_item_matrix.is_none
    \/ username \notin Range(user_item_matrix.index)

\* the username has no profile
NoProfile(username) ==
    \/ user_profiles.is_none
    \/ username \notin DOMAIN user_profiles.profile

\* C15: get_collaborative_recommendations returns the empty list for a
\* username without a row or when there is no similarity matrix, and
\* get_content_based_recommendations returns the empty list for a username
\* without a profile.
C15_EmptyListNotError ==
    /\ (/\ request.op = "collaborative"
        /\ NoRow(request.username) \/ similarity_matrix.is_none)
          => response = Returned(<< >>)
    /\ (request.op = "content_based" /\ NoProfile(request.username))
          => response = Returned(<< >>)

---------------------------------------------------------------------------
(* Properties of the trending list *)

AllOrders == flatten([ u \in 1..Len(UserOrder) |-> MOCK_USERS[UserOrder[u]] ])

OrderedNames == { o.restaurant : o \in Range(AllOrders) }

\* what an order adds to its restaurant's popularity on that day
Contribution(order, day) ==
    CASE ~order.date_parses -> 100
      [] order.date_parses /\ order.days_ago + day <= 7 -> 1000
      [] order.date_parses /\ order.days_ago + day > 7
           /\ order.days_ago + day <= 30 -> 500
      [] OTHER -> 100

Popularity(name, day) ==
    LET placed == SelectSeq(AllOrders, LAMBDA o : o.restaurant = name)
    IN  SumSeq([ i \in 1..Len(placed) |-> Contribution(placed[i], day) ])

TrendingServed == request.op = "trending"

\* C16: the trending list holds the restaurants of the orders with, as
\* score, the sum over all users' orders of 1.0 (at most 7 days old), 0.5
\* (more than 7, at most 30), 0.1 (older, or date not parsed); it is ordered
\* by score, non-increasing, and cut to n.
C16_TrendingWeights ==
    TrendingServed =>
        LET recs == response.value
        IN  /\ ~response.raised
            /\ Names(recs) \subseteq OrderedNames
            /\ Cardinality(Names(recs)) = Len(recs)
            /\ Len(recs) = Min(request.n, Cardinality(OrderedNames))
            /\ \A k \in 1..Len(recs) :
                  /\ recs[k].recommendation_score
                        = Popularity(recs[k].name, request.day)
                  /\ recs[k].recommendation_type = "trending"
            /\ \A k \in 1..(Len(recs) - 1) :
                  recs[k].recommendation_score
                    >= recs[k + 1].recommendation_score
            /\ \A name \in OrderedNames \ Names(recs) :
                  \A k \in 1..Len(recs) :
                      Popularity(name, request.day)
                        <= recs[k].recommendation_score

\* a list cut to n whose first score sums orders of two users, with an
\* order exactly 7 days old and one whose date does not parse
C16_Witness ==
    /\ TrendingServed
    /\ Cardinality(OrderedNames) > request.n
    /\ \E u, v \in UserNames :
          /\ u # v
          /\ \E o \in Range(MOCK_USERS[u]) :
                o.restaurant = response.value[1].name
          /\ \E o \in Range(MOCK_USERS[v]) :
                o.restaurant = response.value[1].name
    /\ \E o \in Range(AllOrders) :
          o.date_parses /\ o.days_ago + request.day \in {7, 30}
    /\ \E o \in Range(AllOrders) :
          o.date_parses /\ o.days_ago + request.day \in {8, 31}

---------------------------------------------------------------------------
(* Properties of the interaction weight *)

WeightTotals == {0, 1, 250, 499, 500, 999, 1000, 1001, 1500, 100000}

Status_Refunded == "Refunded"

WeightStatuses == {"Delivered", "In Transit", "Preparing", "Cancelled",
                   Status_Refunded, ""}

InRange(weight) == 0 <= weight /\ weight <= 2 * F

\* C17: the interaction weight of an order with total >= 0 lies in
\* [0, 2.0], whatever its status.
C17_WeightInRange ==
    /\ \A total \in WeightTotals, status \in WeightStatuses :
          InRange(calculate_interaction_weight(total, status))
    /\ \A username \in UserNames :
          \A o \in Range(MOCK_USERS[username]) :
              o.total_is_number /\ o.total >= 0
                => InRange(calculate_interaction_weight(o.total, o.status))

\* a matrix built from an order whose value is over the cap
C17_Witness ==
    /\ ~user_item_matrix.is_none
    /\ \E username \in Range(user_item_matrix.index) :
          \E o \in Range(MOCK_USERS[username]) :
              /\ o.total > 1000
              /\ user_item_matrix.cell[username][o.restaurant]
                    >= calculate_interaction_weight(o.total, o.status)
              /\ calculate_interaction_weight(o.total, o.status) = 1600

---------------------------------------------------------------------------
(* Properties of the similarity matrix and of the neighbours *)

\* C18: the similarity matrix is symmetric: sim(i, j) = sim(j, i) for
\* every pair of users of the interaction matrix.
C18_SimilaritySymmetric ==
    ~similarity_matrix.is_none =>
        LET n == Len(user_item_matrix.index)
        IN  /\ DOMAIN similarity_matrix.sim = 1..n
            /\ \A i, j \in 1..n :
                  similarity_matrix.sim[i][j] = similarity_matrix.sim[j][i]

\* two users with rows of different length that share a restaurant
C18_Witness ==
    /\ ~similarity_matrix.is_none
    /\ \E i, j \in 1..Len(user_item_matrix.index) :
          /\ i # j
          /\ similarity_matrix.sim[i][j] > 0
          /\ similarity_matrix.sim[i][j] < similarity_matrix.sim[i][i]
          /\ \E r \in Range(user_item_matrix.columns) :
                user_item_matrix.cell[user_item_matrix.index[i]][r]
                  > user_item_matrix.cell[user_item_matrix.index[j]][r]
                /\ user_item_matrix.cell[user_item_matrix.index[j]][r] > 0

\* C19: when get_collaborative_recommendations computes, the target user
\* is in none of the neighbour slots, and the neighbours whose affinities
\* are accumulated are the (at most five) most similar other users among
\* those with similarity > 0.
C19_NeighboursAreOthers ==
    (/\ request.op = "collaborative"
     /\ ~NoRow(request.username)
     /\ ~similarity_matrix.is_none) =>
        LET target == position_in(user_item_matrix.index, request.username)
            sims == similarity_matrix.sim[target]
            slots == Range(similar_users_idx(request.username))
            accumulated == { j \in slots : sims[j] > 0 }
            others == { j \in 1..Len(user_item_matrix.index) \ {target} :
                          sims[j] > 0 }
        IN  /\ target \notin slots
            /\ accumulated \subseteq others
            /\ Cardinality(accumulated) = Min(5, Cardinality(others))
            /\ \A a \in accumulated, b \in others \ accumulated :
                  sims[a] >= sims[b]

---------------------------------------------------------------------------
(* Properties of the content-based order *)

CatalogNames == { RESTAURANT_RECOMMENDATIONS[i].name :
                    i \in 1..Len(RESTAURANT_RECOMMENDATIONS) }

CatalogPosition(name) ==
    CHOOSE i \in 1..Len(RESTAURANT_RECOMMENDATIONS) :
        /\ RESTAURANT_RECOMMENDATIONS[i].name = name
        /\ \A j \in 1..(i - 1) : RESTAURANT_RECOMMENDATIONS[j].name # name

\* the catalog restaurants the user has no order at
Untried(username) ==
    { name \in CatalogNames :
        \A o \in Range(MOCK_USERS[username]) : o.restaurant # name }

ScoreFor(username, name) ==
    content_score(user_profiles.profile[username],
                  restaurant_features.row[name])

\* C20: untried catalog restaurants of equal content-based score appear in
\* catalog order, and of two such restaurants the one later in the catalog
\* is the one that truncation drops, whatever the iteration order of sets.
C20_TiesInCatalogOrder ==
    (/\ request.op = "content_based"
     /\ ~NoProfile(request.username)) =>
        LET recs == response.value
        IN  /\ \A j, k \in 1..Len(recs) :
                  (/\ j < k
                   /\ recs[j].name \in CatalogNames
                   /\ recs[k].name \in CatalogNames
                   /\ recs[j].recommendation_score
                         = recs[k].recommendation_score)
                    => CatalogPosition(recs[j].name)
                         < CatalogPosition(recs[k].name)
            /\ \A k \in 1..Len(recs) :
                  \A name \in Untried(request.username) \ Names(recs) :
                      (/\ recs[k].name \in CatalogNames
                       /\ ScoreFor(request.username, name)
                             = recs[k].recommendation_score)
                        => CatalogPosition(recs[k].name)
                             < CatalogPosition(name)

---------------------------------------------------------------------------
(* Properties of the model rebuild *)

\* C11: every attribute a get_ml_recommendations call reads belongs to the
\* one object the call loaded from the global, that object's __init__ had
\* returned when it was read, and all the attributes read were assigned by
\* the same build.
C11_AtomicSwap ==
    \A read \in reader.seen :
        /\ read.instance = reader.self
        /\ read.constructed
        /\ \A other \in reader.seen : other.build = read.build

\* a call that has read all four attributes of the object it loaded while
\* the global was bound to a newer object and a further rebuild is under way
C11_Witness ==
    /\ reader.pc = "reading"
    /\ { read.attr : read \in reader.seen } = Range(Attributes)
    /\ recommendation_engine # reader.self
    /\ builder.pc \notin {"idle", "bind"}
    /\ ~instances[builder.self].constructed

---------------------------------------------------------------------------
(* Properties of delivery-time parsing *)

is_digit_char(c) == \E d \in 1..10 : Digits[d] = c

RECURSIVE IntegersFrom(_, _, _)
\* the integers written in the label, in turn: its maximal runs of digits
\* from position i on, `run` being the digits read so far
IntegersFrom(label, i, run) ==
    IF i > Len(label)
    THEN (IF run = << >> THEN << >> ELSE << int_of(run) >>)
    ELSE IF is_digit_char(label[i])
         THEN IntegersFrom(label, i + 1, Append(run, label[i]))
         ELSE (IF run = << >> THEN << >> ELSE << int_of(run) >>)
              \o IntegersFrom(label, i + 1, << >>)

\* the minutes a label stands for: the average of its two bounds, its
\* single integer, or 30.0 when it holds no integer
MinutesOf(label) ==
    LET bounds == IntegersFrom(label, 1, << >>)
    IN  IF Len(bounds) >= 2 THEN ((bounds[1] + bounds[2]) * F) \div 2
        ELSE IF Len(bounds) = 1 THEN bounds[1] * F
        ELSE 30 * F

\* C21: the delivery time kept for a catalog restaurant is the average of
\* the two bounds of a "<lo>-<hi> min" label, the integer of a label with
\* one integer, and 30.0 for a label without any.
C21_DeliveryTimeParsed ==
    ~restaurant_features.is_none =>
        \A i \in 1..Len(RESTAURANT_RECOMMENDATIONS) :
            LET entry == RESTAURANT_RECOMMENDATIONS[i]
            IN  (/\ entry.name \in Range(restaurant_features.index)
                 /\ catalog_lookup(RESTAURANT_RECOMMENDATIONS,
                                   entry.name).info = entry)
                  => restaurant_features.row[entry.name].delivery_time
                       = MinutesOf(entry.delivery_time)

---------------------------------------------------------------------------
(* Properties of the interaction matrix *)

StatusWeight(status) ==
    IF status = "Delivered" THEN 1000
    ELSE IF status = "In Transit" THEN 800
    ELSE IF status = "Preparing" THEN 600
    ELSE IF status = "Cancelled" THEN 100
    ELSE 500

\* min(total / 500, 2.0) x status weight
OrderWeight(o) == (Min((o.total * F) \div 500, 2 * F) * StatusWeight(o.status)) \div F

\* the sum of the weights of the orders of the list placed at the restaurant
CellSum(orders, restaurant) ==
    LET placed == SelectSeq(orders, LAMBDA o : o.restaurant = restaurant)
    IN  SumSeq([ i \in 1..Len(placed) |-> OrderWeight(placed[i]) ])

\* the order histories with one more order of the pool, placed by a user
OneMoreOrder ==
    { [MOCK_USERS EXCEPT ![u] = Append(@, OrderPool[i])] :
        u \in UserNames,
        i \in { k \in 1..Len(OrderPool) :
                  /\ OrderPool[k].total_is_number
                  /\ \A v \in UserNames :
                        OrderPool[k] \notin Range(MOCK_USERS[v]) } }

\* C22: each cell of the interaction matrix is the sum over the user's
\* orders at the restaurant of min(total/500, 2.0) x status weight, 0
\* without such an order, and the matrix built with one more order has no
\* smaller cell.
C22_CellIsWeightSum ==
    (request = Idle /\ ~user_item_matrix.is_none) =>
        /\ \A u \in Range(user_item_matrix.index) :
              \A r \in Range(user_item_matrix.columns) :
                  user_item_matrix.cell[u][r] = CellSum(MOCK_USERS[u], r)
        /\ Range(user_item_matrix.index)
              = { u \in UserNames : MOCK_USERS[u] # << >> }
        /\ Range(user_item_matrix.columns) = OrderedNames
        /\ \A more \in OneMoreOrder :
              LET larger == build_user_item_matrix(more, hash_order).value
              IN  \A u \in Range(user_item_matrix.index) :
                    \A r \in Range(user_item_matrix.columns) :
                        larger.cell[u][r] >= user_item_matrix.cell[u][r]

\* a single Delivered order of 600 gives 1.2, two orders at one restaurant
\* add up, a pair without order is 0, and an order can still be added
C22_Witness ==
    /\ request = Idle
    /\ ~user_item_matrix.is_none
    /\ \E u, v \in Range(user_item_matrix.index) :
          \E r, s \in Range(user_item_matrix.columns) :
              /\ Len(SelectSeq(MOCK_USERS[u], LAMBDA o : o.restaurant = r)) = 2
              /\ user_item_matrix.cell[u][r] = 2800
              /\ user_item_matrix.cell[u][s] = 0
              /\ MOCK_USERS[v] = << OrderPool[3] >>
              /\ OrderPool[3].total = 600
              /\ OrderPool[3].status = "Delivered"
              /\ user_item_matrix.cell[v][s] = 1200
    /\ OneMoreOrder # {}

---------------------------------------------------------------------------
(* Properties of the content-based scores *)

\* the restaurants of the orders and of the catalog that the user has no
\* order at
KnownUntried(username) ==
    ((OrderedNames \cup CatalogNames) \ {""})
        \ { o.restaurant : o \in Range(MOCK_USERS[username]) }

\* rating / 5, the rating being 4.0 for a restaurant outside the catalog
RatingTerm(name) ==
    IF name \in CatalogNames
    THEN RESTAURANT_RECOMMENDATIONS[CatalogPosition(name)].rating \div 5
    ELSE (4 * F) \div 5

\* |delivery_time - the user's delivery_time_preference| / 30
DeliveryGap(username, name) ==
    Abs(restaurant_features.row[name].delivery_time
        - user_profiles.profile[username].delivery_time_preference) \div 30

DeliveryTerm(username, name) ==
    IF DeliveryGap(username, name) >= F THEN 0
    ELSE F - DeliveryGap(username, name)

\* the user's preference weight for the restaurant's cuisine, 0 if none
CuisineTerm(username, name) ==
    LET preferred == user_profiles.profile[username].preferred_cuisines
    IN  IF name \notin CatalogNames THEN 0
        ELSE LET cuisine ==
                   RESTAURANT_RECOMMENDATIONS[CatalogPosition(name)].cuisine
             IN  IF cuisine \in DOMAIN preferred THEN preferred[cuisine]
                 ELSE 0

ContentScore(username, name) ==
    (RatingTerm(name) * 3) \div 10
    + (DeliveryTerm(username, name) * 2) \div 10
    + (CuisineTerm(username, name) * 5) \div 10

ContentServed ==
    request.op = "content_based" /\ ~NoProfile(request.username)

\* C23: for a user with a profile, the content-based list holds untried
\* known restaurants, each with the score 0.3 x rating/5 + 0.2 x max(0,
\* 1 - |delivery_time - preference| / 30) + 0.5 x cuisine weight; it holds
\* the n highest-scoring ones, in non-increasing score order.
C23_ContentScoreFormula ==
    ContentServed =>
        LET recs == response.value
            username == request.username
        IN  /\ ~response.raised
            /\ Names(recs) \subseteq KnownUntried(username)
            /\ Cardinality(Names(recs)) = Len(recs)
            /\ Len(recs)
                 = Min(request.n, Cardinality(KnownUntried(username)))
            /\ \A k \in 1..Len(recs) :
                  /\ recs[k].recommendation_score
                        = ContentScore(username, recs[k].name)
                  /\ recs[k].recommendation_type = "content_based"
            /\ \A k \in 1..(Len(recs) - 1) :
                  recs[k].recommendation_score
                    >= recs[k + 1].recommendation_score
            /\ \A name \in KnownUntried(username) \ Names(recs) :
                  \A k \in 1..Len(recs) :
                      ContentScore(username, name)
                        <= recs[k].recommendation_score

\* a list cut to n whose first entry has the user's cuisine and a positive
\* delivery term, with a restaurant left out whose delivery term is
\* floored at 0 and one from outside the catalog
C23_Witness ==
    /\ ContentServed
    /\ Len(response.value) = request.n
    /\ CuisineTerm(request.username, response.value[1].name) > 0
    /\ DeliveryTerm(request.username, response.value[1].name) > 0
    /\ \E name \in KnownUntried(request.username) \ Names(response.value) :
          DeliveryGap(request.username, name) > F
    /\ \E name \in KnownUntried(request.username) :
          name \notin CatalogNames

---------------------------------------------------------------------------
(* Properties of what a request leaves alone *)

CatalogFields == {"name", "cuisine", "rating", "delivery_time"}

\* C24: a recommendation request changes neither the four matrices of the
\* engine nor the order data nor the catalog, which stays as it was at
\* initialization, without any annotation of a returned record.
C24_RequestsChangeNothing ==
    [][(request = Idle /\ request'.op \in ListOps)
       => /\ UNCHANGED << user_item_matrix, restaurant_features,
                          user_profiles, similarity_matrix >>
          /\ UNCHANGED << MOCK_USERS, RESTAURANT_RECOMMENDATIONS >>
          /\ RESTAURANT_RECOMMENDATIONS' = Catalog
          /\ \A i \in 1..Len(RESTAURANT_RECOMMENDATIONS') :
                DOMAIN RESTAURANT_RECOMMENDATIONS'[i] = CatalogFields
      ]_vars

\* a personalized request that returned computed lists whose annotated
\* records are catalog restaurants
C24_Witness ==
    /\ request.op = "personalized"
    /\ response.value # static_fallback
    /\ response.value.collaborative # << >>
    /\ response.value.content_based # << >>
    /\ response.value.trending # << >>
    /\ \A k \in 1..Len(response.value.content_based) :
          response.value.content_based[k].name \in CatalogNames
    /\ RESTAURANT_RECOMMENDATIONS = Catalog

---------------------------------------------------------------------------
(* Properties of the built profiles *)

\* the orders of the list whose restaurant is in the catalog
Resolved(orders) ==
    SelectSeq(orders, LAMBDA o : o.restaurant \in CatalogNames)

CuisineOf(name) == RESTAURANT_RECOMMENDATIONS[CatalogPosition(name)].cuisine

\* how many resolved orders of the list are of that cuisine
CuisineCount(orders, cuisine) ==
    Len(SelectSeq(Resolved(orders),
                  LAMBDA o : CuisineOf(o.restaurant) = cuisine))

MeanTotal(orders) ==
    SumSeq([ i \in 1..Len(orders) |-> orders[i].total * F ]) \div Len(orders)

\* C25: for a user with an order, avg_order_value is the mean of all the
\* order totals; preferred_cuisines gives each cuisine of the resolved
\* orders its share of them (nothing when no order resolves, shares adding
\* up to 1 otherwise, up to the rounding of the last digit);
\* price_sensitivity is min(avg_order_value / 1000, 1.0) and
\* order_frequency the number of orders / 30.
C25_ProfileFields ==
    ~user_profiles.is_none =>
        \A username \in UserNames :
            MOCK_USERS[username] # << >> =>
                /\ username \in DOMAIN user_profiles.profile
                /\ LET orders == MOCK_USERS[username]
                       profile == user_profiles.profile[username]
                       preferred == profile.preferred_cuisines
                       resolved == Resolved(orders)
                   IN  /\ profile.avg_order_value = MeanTotal(orders)
                       /\ DOMAIN preferred
                            = { CuisineOf(resolved[i].restaurant) :
                                  i \in 1..Len(resolved) }
                       /\ \A c \in DOMAIN preferred :
                             preferred[c]
                               = (CuisineCount(orders, c) * F)
                                   \div Len(resolved)
                       /\ resolved # << >> =>
                             LET shares ==
                                   SumSeq([ k \in 1..Len(SelectSeq(AllCuisines,
                                              LAMBDA c : c \in DOMAIN preferred))
                                            |-> preferred[SelectSeq(AllCuisines,
                                              LAMBDA c : c \in DOMAIN preferred)[k]] ])
                             IN  /\ shares <= F
                                 /\ shares > F - Cardinality(DOMAIN preferred)
                       /\ profile.price_sensitivity
                            = Min(MeanTotal(orders) \div 1000, F)
                       /\ profile.order_frequency
                            = (Len(orders) * F) \div 30

\* a user with an order outside the catalog and one inside it, and a user
\* whose mean order value is over 1000
C25_Witness ==
    /\ ~user_profiles.is_none
    /\ \E u, v \in DOMAIN user_profiles.profile :
          /\ Len(MOCK_USERS[u]) = 2
          /\ Len(Resolved(MOCK_USERS[u])) = 1
          /\ user_profiles.profile[u].avg_order_value = 425 * F
          /\ Cardinality(DOMAIN user_profiles.profile[u].preferred_cuisines) = 1
          /\ user_profiles.profile[v].avg_order_value > 1000 * F
          /\ user_profiles.profile[v].price_sensitivity = F

---------------------------------------------------------------------------
(* Properties of the tags of flow entries *)

\* C26: a user entry is tagged with the topic detected in its own message,
\* None without a keyword match, so that a user message without a match
\* sent under a current topic leaves get_topic_message_count() as it was,
\* while an assistant message sent under a current topic adds 1 to it.
C26_UserEntryTaggedByOwnTopic ==
    [][/\ called' = "add_user_message" =>
            /\ conversation_flow'[Len(conversation_flow')].topic
                 = (IF MatchedCategories(last_user_message'[1]) = {}
                    THEN None
                    ELSE FirstCategoryTopic(last_user_message'[1]))
            /\ (/\ MatchedCategories(last_user_message'[1]) = {}
                 /\ current_topic # None)
                  => /\ current_topic' = current_topic
                     /\ get_topic_message_count_of(current_topic',
                                                    conversation_flow')
                          = get_topic_message_count
       /\ (called' = "add_assistant_message" /\ current_topic # None) =>
            get_topic_message_count_of(current_topic', conversation_flow')
              = get_topic_message_count + 1
      ]_vars

\* a user message without a match under a topic, then the assistant reply
C26_Witness ==
    /\ called = "add_assistant_message"
    /\ Len(conversation_flow) = 3
    /\ conversation_flow[1].role = "user"
    /\ conversation_flow[1].topic = current_topic
    /\ current_topic # None
    /\ conversation_flow[2].role = "user"
    /\ conversation_flow[2].topic = None
    /\ conversation_flow[3].role = "assistant"
    /\ conversation_flow[3].topic = current_topic
    /\ get_topic_message_count = 2

\* the user entries of the flow that carry a topic
TopicalUserEntries ==
    { i \in UserEntries(conversation_flow) :
        conversation_flow[i].topic # None }

\* C27: current_topic is set exactly when some user entry of the flow
\* carries a topic, and then get_topic_message_count() is at least 1 and at
\* most the length of the flow.
C27_TopicIffTopicalEntry ==
    /\ (current_topic # None) <=> (TopicalUserEntries # {})
    /\ current_topic # None =>
          /\ get_topic_message_count >= 1
          /\ get_topic_message_count <= Len(conversation_flow)

\* a flow with two topics, the current one counted once
C27_Witness ==
    /\ current_topic # None
    /\ Len(conversation_flow) = 3
    /\ Cardinality(TopicalUserEntries) = 2
    /\ conversation_flow[1].topic # current_topic
    /\ conversation_flow[2].role = "assistant"
    /\ get_topic_message_count = 1
    /\ message_count = 2

---------------------------------------------------------------------------
(* Properties of the returned conversation state *)

\* C28: the dict returned by get_conversation_state() keeps every field as
\* it was returned, the contents of its conversation_flow included,
\* whatever is called on the tracker afterwards.
C28_ReturnedStateIsolated ==
    ~returned_state.is_none =>
        returned_state.conversation_flow = returned_state.flow_when_returned

---------------------------------------------------------------------------
(* Properties of the chat page *)

Roles(entries) == [i \in 1..Len(entries) |-> entries[i].role]

TurnOpen ==
    /\ chat_history # << >>
    /\ chat_history[Len(chat_history)] = ChatEntry("user", page.prompt)
    /\ conversation_flow # << >>
    /\ conversation_flow[Len(conversation_flow)].role = "user"
    /\ conversation_flow[Len(conversation_flow)].message = page.prompt

\* C29: after any sequence of chat-page actions the chat history and the
\* tracker's flow have the same roles in the same order (so the same length,
\* and both are empty after Clear Chat), message_count is the number of
\* user entries of the chat history, and while the LLM call of a turn is
\* awaited the user entry of the turn is the last one of both.
C29_HistoryAndFlowInStep ==
    /\ Roles(chat_history) = Roles(conversation_flow)
    /\ message_count = Cardinality(UserEntries(chat_history))
    /\ page # Ready => TurnOpen

\* a turn was abandoned during the call and the next one has completed
C29_Witness ==
    /\ page = Ready
    /\ Roles(chat_history) = << "user", "user", "assistant" >>
    /\ message_count = 2
    /\ called = "add_assistant_message"

---------------------------------------------------------------------------
(* Properties of the already-tried filter *)

TriedBy(username) == { o.restaurant : o \in Range(MOCK_USERS[username]) }

\* C30: no restaurant of any of the user's orders, an order of weight 0
\* (total 0) included, is in the list get_collaborative_recommendations
\* returns, as none is in the list get_content_based_recommendations
\* returns.
C30_TriedExcludedByBoth ==
    /\ request # Idle
    /\ request.op \in {"collaborative", "content_based"}
    /\ ~response.raised
    => \A k \in 1..Len(response.value) :
          response.value[k].name \notin TriedBy(request.username)

===========================================================================
